---------------------------- MODULE TaskRuntime ----------------------------
(***************************************************************************)
(* The turn runtime of the gateway: gateway/task_runtime.py.               *)
(*                                                                         *)
(* A turn is admitted (reserve, persist, activate), waits in its session's *)
(* lane behind the session's execution lock, waits for one of the global   *)
(* slots, runs, and is settled exactly once.  Everything runs on one       *)
(* asyncio loop: the code between two awaits that suspend is one step of   *)
(* this module.  The bodies of `_state_lock`, `_fair_cond` and             *)
(* `_slot_cond` never suspend while they hold their lock, so those locks   *)
(* are never contended and do not appear.  The locks that are held across  *)
(* an await do appear: the per-session execution lock (lockOwner), the     *)
(* per-session admission gate (gate) and the per-task steer claim          *)
(* (steerClaim).  The per-task collect claim is held exactly while a task  *)
(* is "marking" or "announce", and through a settlement.                   *)
(*                                                                         *)
(* Control points of a driver (the coroutine `_execute`):                  *)
(*   fresh     not admitted yet          reserved  reservation, no driver  *)
(*   ready     created, not started      lock      awaits execution_lock   *)
(*   gate      awaits _slot_cond         fair      awaits _fair_cond       *)
(*   marking   _mark_running, before     announce  ... after the flip to   *)
(*             the flip to RUNNING                 RUNNING                 *)
(*   turn      the turn handler runs     hbstop    turn returned, awaits   *)
(*                                                 its heartbeat task      *)
(*   unwind    finally-block of a failed or cancelled turn                 *)
(*   closeL    wants to settle, holds    settleL   settles, holds the      *)
(*             the execution lock                  execution lock          *)
(*   handler   in an except-branch       settleH   settles from there      *)
(*   done      driver returned           aborted   reservation released    *)
(***************************************************************************)
EXTENDS Integers, FiniteSets, Sequences

CONSTANTS
  Tasks,            \* identities a turn can get
  Sessions,         \* session keys
  Agents,           \* agent ids
  SessionOf,        \* [Tasks -> Sessions]
  AgentOf,          \* [Sessions -> Agents]
  Kind,             \* [Tasks -> {"default", "subagent"}]
  MaxConcurrency,   \* _max_concurrency
  SubagentReserved, \* _subagent_reserved_slots, after clamping
  MaxPending,       \* _max_pending_per_session
  Modes,            \* queue modes the clients use
  Policies,         \* overflow policies the clients ask for
  DefaultPolicy,    \* the runtime's own overflow policy (promotions use it)
  Steers,           \* same-turn inputs
  CancelSources,    \* who calls cancel(): a user, or the system
  Cancellable,      \* bound: the tasks somebody cancels
  RepeatCancel,     \* bound: whether a cancelled task is cancelled again
  Faults,           \* which environment failures happen
  NoTask

Statuses == {"queued", "running", "succeeded", "failed", "cancelled"}
TerminalStatuses == {"succeeded", "failed", "cancelled"}

ASSUME ShapeAssumption ==
  /\ IsFiniteSet(Tasks)
  /\ SessionOf \in [Tasks -> Sessions]
  /\ AgentOf \in [Sessions -> Agents]
  /\ Kind \in [Tasks -> {"default", "subagent"}]
  /\ NoTask \notin Tasks

\* The constructor rejects a smaller limit and clamps the reserved slots.
ASSUME LimitAssumption ==
  /\ MaxConcurrency \in Nat \ {0}
  /\ SubagentReserved \in 0..(MaxConcurrency - 1)
  /\ MaxPending \in Nat \ {0}

ASSUME ClientAssumption ==
  /\ Modes \subseteq {"followup", "interrupt"}
  /\ Policies \cup {DefaultPolicy} \subseteq {"reject_newest", "drop_oldest"}
  /\ CancelSources \subseteq {"user", "system"}
  /\ Cancellable \subseteq Tasks
  /\ RepeatCancel \in BOOLEAN
  /\ Faults \subseteq {"create", "mark", "turn", "terminal", "steer", "emit"}

VARIABLES
  pc,          \* control point of each driver
  status,      \* task.status
  want,        \* terminal status the driver is about to claim
  term,        \* progress of the task's settlement
  rows,        \* tasks whose terminal row is durable
  arrivals,    \* per session: tasks in activation order (dict order of _tasks)
  pending,     \* tasks in _pending_by_session, ordered by arrivals
  running,     \* _running_by_session
  lockOwner,   \* owner of the session's execution lock
  gate,        \* holder of the session's admission gate
  mode,        \* queue mode of an admission
  victim,      \* overflow victim of an admission
  slots,       \* tasks with acquired_slot
  inFlight,    \* _global_in_flight
  rr,          \* _agent_session_rr
  woken,       \* condition waiters that were notified and will re-check
  cancelReq,   \* tasks with cancel_requested
  cancelSrc,   \* cancel_source, reduced to user or system
  cancelSig,   \* tasks whose driver has an undelivered CancelledError
  cancelOp,    \* the cancel() call that holds the task's steer claim
  ext,         \* settlement of the task by somebody else than its driver
  steerClaim,  \* holder of the task's steer claim
  promo,       \* follow-up a task's leftover steers were handed to
  sst,         \* disposition of each steer
  starget      \* turn each steer was attached to

laneVars   == <<arrivals, pending, running>>
admitVars  == <<gate, mode, victim>>
slotVars   == <<slots, inFlight, rr, woken>>
cancelVars == <<cancelReq, cancelSrc, cancelSig, cancelOp>>
steerVars  == <<sst, starget>>
taskVars   == <<pc, status, want>>
vars == <<pc, status, want, term, rows, arrivals, pending, running, lockOwner,
          gate, mode, victim, slots, inFlight, rr, woken, cancelReq, cancelSrc,
          cancelSig, cancelOp, ext, steerClaim, promo, sst, starget>>

Points == {"fresh", "reserved", "ready", "lock", "gate", "fair", "marking",
           "announce", "turn", "hbstop", "unwind", "closeL", "settleL",
           "handler", "settleH", "done", "aborted"}

TypeOK ==
  /\ pc \in [Tasks -> Points]
  /\ status \in [Tasks -> Statuses]
  /\ want \in [Tasks -> Statuses]
  /\ term \in [Tasks -> {"open", "settling", "written", "emitted", "settled"}]
  /\ rows \subseteq Tasks
  /\ arrivals \in [Sessions -> Seq(Tasks)]
  /\ pending \subseteq Tasks
  /\ running \in [Sessions -> Tasks \cup {NoTask}]
  /\ lockOwner \in [Sessions -> Tasks \cup {NoTask}]
  /\ gate \in [Sessions -> Tasks \cup {NoTask}]
  /\ mode \in [Tasks -> {"followup", "interrupt"}]
  /\ victim \in [Tasks -> Tasks \cup {NoTask}]
  /\ slots \subseteq Tasks
  /\ inFlight \in Nat
  /\ rr \in [Agents -> Seq(Sessions)]
  /\ woken \subseteq Tasks
  /\ cancelReq \subseteq Tasks
  /\ cancelSrc \in [Tasks -> {"user", "system"}]
  /\ cancelSig \subseteq Tasks
  /\ cancelOp \in [Tasks -> {"idle", "started", "unstarted"}]
  /\ ext \in [Tasks -> {"none", "wanted", "owner"}]
  /\ steerClaim \in [Tasks -> {"free", "admit", "cancel", "term"}]
  /\ promo \in [Tasks -> Tasks \cup {NoTask}]
  /\ sst \in [Steers -> {"none", "persisting", "refused", "pending", "claimed",
                         "applied", "reclaimed", "promoted", "cancelled",
                         "rejected"}]
  /\ starget \in [Steers -> Tasks \cup {NoTask}]

Init ==
  /\ pc = [t \in Tasks |-> "fresh"]
  /\ status = [t \in Tasks |-> "queued"]
  /\ want = [t \in Tasks |-> "queued"]
  /\ term = [t \in Tasks |-> "open"]
  /\ rows = {}
  /\ arrivals = [s \in Sessions |-> <<>>]
  /\ pending = {}
  /\ running = [s \in Sessions |-> NoTask]
  /\ lockOwner = [s \in Sessions |-> NoTask]
  /\ gate = [s \in Sessions |-> NoTask]
  /\ mode = [t \in Tasks |-> "followup"]
  /\ victim = [t \in Tasks |-> NoTask]
  /\ slots = {}
  /\ inFlight = 0
  /\ rr = [a \in Agents |-> <<>>]
  /\ woken = {}
  /\ cancelReq = {}
  /\ cancelSrc = [t \in Tasks |-> "user"]
  /\ cancelSig = {}
  /\ cancelOp = [t \in Tasks |-> "idle"]
  /\ ext = [t \in Tasks |-> "none"]
  /\ steerClaim = [t \in Tasks |-> "free"]
  /\ promo = [t \in Tasks |-> NoTask]
  /\ sst = [x \in Steers |-> "none"]
  /\ starget = [x \in Steers |-> NoTask]

-----------------------------------------------------------------------------
(* Derived state. *)

Lane(s) == {t \in Tasks : SessionOf[t] = s}
TaskAgent(t) == AgentOf[SessionOf[t]]

\* t was activated before every other member of X, a set of t's session.
FirstIn(t, X) ==
  \E i \in DOMAIN arrivals[SessionOf[t]] :
    /\ arrivals[SessionOf[t]][i] = t
    /\ \A j \in 1..(i - 1) : arrivals[SessionOf[t]][j] \notin X

\* The tasks still in the runtime's ledger `_tasks`.
Live(t) == pc[t] \notin {"fresh", "reserved", "aborted"} /\ term[t] # "settled"

\* Mutant: reclaim_pending forgets the inputs claimed for the next request.
MutReclaimsPendingOnly(t) == {x \in Steers : starget[x] = t /\ sst[x] = "pending"}
Undrained(t) == {x \in Steers : starget[x] = t /\ sst[x] \in {"pending", "claimed"}}
Resolve(X, d) == sst' = [x \in Steers |-> IF x \in X THEN d ELSE sst[x]]

PosIn(q, e) == CHOOSE i \in DOMAIN q : q[i] = e
Holds(q, e) == \E i \in DOMAIN q : q[i] = e
RotatePast(q, e) ==
  IF Holds(q, e)
  THEN SubSeq(q, PosIn(q, e) + 1, Len(q)) \o SubSeq(q, 1, PosIn(q, e))
  ELSE q
DropFrom(q, e) ==
  IF Holds(q, e)
  THEN SubSeq(q, 1, PosIn(q, e) - 1) \o SubSeq(q, PosIn(q, e) + 1, Len(q))
  ELSE q

FairWaiters == {t \in Tasks : pc[t] = "fair"}
CondWaiters == {t \in Tasks : pc[t] \in {"fair", "gate"}}
SlotWaiters(a) == {SessionOf[t] : t \in {u \in FairWaiters : TaskAgent(u) = a}}

\* fair_session: the first session of the rotation that waits for a slot.
IsFairSession(s) ==
  LET q == rr[AgentOf[s]] IN
    \E i \in DOMAIN q :
      /\ q[i] = s
      /\ s \in SlotWaiters(AgentOf[s])
      /\ \A j \in 1..(i - 1) : q[j] \notin SlotWaiters(AgentOf[s])

\* The predicate of _acquire_fair_slot, and of _wait_for_subagent_slot.
FairGrantable(t) ==
  /\ inFlight < MaxConcurrency
  /\ MaxConcurrency - inFlight = 1 => IsFairSession(SessionOf[t])
\* Mutant: off by one in the reserved headroom.
MutHeadroomOffByOne(t) == MaxConcurrency - inFlight >= SubagentReserved
GateGrantable(t) == MaxConcurrency - inFlight > SubagentReserved

-----------------------------------------------------------------------------
(* Admission: enqueue() = gate, reserve(), create_agent_task, activate().  *)

Reserved(s) == {t \in Lane(s) : pc[t] = "reserved"}
ReservedVictims == {victim[t] : t \in {u \in Tasks : pc[u] = "reserved"}} \ {NoTask}
Countable(s) == (pending \cap Lane(s)) \ ReservedVictims
\* Mutant: reservations that are not activated yet are not counted.
MutIgnoresReservations(s) == Cardinality(Countable(s)) >= MaxPending
Full(s) == Cardinality(Countable(s)) + Cardinality(Reserved(s)) >= MaxPending

\* What reserve() does with the queue of session s; NoTask: no victim needed.
\* Steer and interrupt modes skip the limit.
ReserveVictims(s, m, policy) ==
  IF m = "interrupt" \/ ~Full(s) THEN {NoTask}
  ELSE IF policy = "drop_oldest"
       THEN {v \in Countable(s) :
               /\ status[v] = "queued"
               /\ FirstIn(v, {u \in Countable(s) : status[u] = "queued"})}
       ELSE {}

\* The scheduler runs a created driver before a storage call that was issued
\* after it returns, so an admission that starts later never finds it "ready".
Enqueue(t, m, policy) ==
  LET s == SessionOf[t] IN
  /\ pc[t] = "fresh"
  /\ gate[s] = NoTask
  /\ \A u \in Lane(s) : pc[u] # "ready"
  /\ \E v \in ReserveVictims(s, m, policy) : victim' = [victim EXCEPT ![t] = v]
  /\ pc' = [pc EXCEPT ![t] = "reserved"]
  /\ mode' = [mode EXCEPT ![t] = m]
  /\ gate' = [gate EXCEPT ![s] = t]
  /\ UNCHANGED <<status, want, term, rows, laneVars, lockOwner, slotVars,
                 cancelVars, ext, steerClaim, promo, steerVars>>

ReleaseGate(t) == gate' = [gate EXCEPT ![SessionOf[t]] = NoTask]

\* create_agent_task raised: abort_reservation, and the gate is released.
EnqueueFails(t) ==
  /\ "create" \in Faults
  /\ pc[t] = "reserved"
  /\ gate[SessionOf[t]] = t
  /\ pc' = [pc EXCEPT ![t] = "aborted"]
  /\ victim' = [victim EXCEPT ![t] = NoTask]
  /\ ReleaseGate(t)
  /\ UNCHANGED <<status, want, term, rows, laneVars, lockOwner, mode, slotVars,
                 cancelVars, ext, steerClaim, promo, steerVars>>

\* A settlement by somebody else than the driver starts at once when neither
\* claim of the task is held, and otherwise when they are released.
ClaimsFree(t) == steerClaim[t] = "free" /\ pc[t] \notin {"marking", "announce"}

\* The driver was created and has not returned: cancel() reaches it.
DriverLive(t) == pc[t] \notin {"fresh", "reserved", "aborted", "done"}

\* Mutant: tasks that already have a terminal status are interrupted too.
MutInterruptsTerminal(t) ==
  IF mode[t] = "interrupt" THEN {u \in Lane(SessionOf[t]) : Live(u)} ELSE {}
InterruptTargets(t) ==
  IF mode[t] = "interrupt"
  THEN {u \in Lane(SessionOf[t]) : Live(u) /\ status[u] \notin TerminalStatuses}
  ELSE {}

\* The reserved victim, if it still waits when the replacement is activated.
\* Mutant: it is evicted even if it began to run while the row was written.
MutEvictsStarted(t) == {victim[t]} \ {NoTask}
EvictedBy(t) ==
  {v \in {victim[t]} \ {NoTask} : status[v] = "queued" /\ v \in pending}

\* activate(): everything up to the settlement of the victim is one step.
\* The victim's settlement is claimed in the same step when nobody holds one
\* of its claims; it is never claimed twice (terminal_closing).
ActivateEffect(t) ==
  LET s == SessionOf[t]
      a == TaskAgent(t)
      hit == InterruptTargets(t) \cup EvictedBy(t)
      now == {v \in EvictedBy(t) : ClaimsFree(v) /\ term[v] = "open"}
      later == {v \in EvictedBy(t) : ~ClaimsFree(v)}
  IN
  /\ pc' = [pc EXCEPT ![t] = "ready"]
  /\ arrivals' = [arrivals EXCEPT ![s] = Append(@, t)]
  /\ pending' = pending \cup {t}
  /\ rr' = [rr EXCEPT ![a] = IF Holds(@, s) THEN @ ELSE Append(@, s)]
  /\ cancelReq' = cancelReq \cup hit
  /\ cancelSrc' = [u \in Tasks |-> IF u \in hit THEN "system" ELSE cancelSrc[u]]
  /\ cancelSig' = cancelSig \cup {u \in hit : DriverLive(u)}
  /\ status' = [u \in Tasks |-> IF u \in now THEN "cancelled" ELSE status[u]]
  /\ term' = [u \in Tasks |-> IF u \in now THEN "settling" ELSE term[u]]
  /\ steerClaim' = [u \in Tasks |-> IF u \in now THEN "term" ELSE steerClaim[u]]
  /\ ext' = [u \in Tasks |-> IF u \in now THEN "owner"
                             ELSE IF u \in later THEN "wanted" ELSE ext[u]]
  /\ victim' = [victim EXCEPT ![t] = IF EvictedBy(t) = {} THEN NoTask ELSE @]
  /\ UNCHANGED <<want, rows, running, lockOwner, gate, mode, slots, inFlight,
                 woken, cancelOp>>

Activate(t) ==
  /\ pc[t] = "reserved"
  /\ gate[SessionOf[t]] = t
  /\ ActivateEffect(t)
  /\ UNCHANGED <<promo, steerVars>>

VictimSettled(t) == victim[t] # NoTask => term[victim[t]] = "settled"

\* enqueue() returns its handle and releases the admission gate.
Admitted(t) ==
  /\ gate[SessionOf[t]] = t
  /\ pc[t] # "reserved"
  /\ VictimSettled(t)
  /\ ReleaseGate(t)
  /\ victim' = [victim EXCEPT ![t] = NoTask]
  /\ UNCHANGED <<taskVars, term, rows, laneVars, lockOwner, mode, slotVars,
                 cancelVars, ext, steerClaim, promo, steerVars>>

-----------------------------------------------------------------------------
(* The driver: _execute().  A driver with an undelivered CancelledError can *)
(* only receive it, so its other steps require t \notin cancelSig.          *)

\* Drivers take their first step in the order they were created.
DriverStart(t) ==
  /\ pc[t] = "ready"
  /\ t \notin cancelSig
  /\ FirstIn(t, {u \in Tasks : pc[u] = "ready"})
  /\ pc' = [pc EXCEPT ![t] = "lock"]
  /\ UNCHANGED <<status, want, term, rows, laneVars, lockOwner, admitVars,
                 slotVars, cancelVars, ext, steerClaim, promo, steerVars>>

\* asyncio.Lock hands over in arrival order.
\* Mutant: any waiter may overtake.
MutOvertakes(t) == TRUE
NextInLane(t) == FirstIn(t, {u \in Tasks : pc[u] \in {"ready", "lock"}})

\* A task that was cancelled while
\* it waited goes on to settle under the lock; only subagents pass the gate.
LockAcquire(t) ==
  LET s == SessionOf[t]
      next == IF t \in cancelReq THEN "closeL"
              ELSE IF Kind[t] = "subagent" /\ SubagentReserved > 0
                   THEN "gate" ELSE "fair"
  IN
  /\ pc[t] = "lock"
  /\ t \notin cancelSig
  /\ lockOwner[s] = NoTask
  /\ NextInLane(t)
  /\ lockOwner' = [lockOwner EXCEPT ![s] = t]
  /\ pc' = [pc EXCEPT ![t] = next]
  /\ want' = [want EXCEPT ![t] = IF t \in cancelReq THEN "cancelled" ELSE @]
  /\ woken' = IF t \in cancelReq THEN woken ELSE woken \cup {t}
  /\ UNCHANGED <<status, term, rows, laneVars, admitVars, slots, inFlight, rr,
                 cancelVars, ext, steerClaim, promo, steerVars>>

\* Taking a slot rotates the agent's sessions past this one and wakes the
\* other waiters of _fair_cond.
\* Mutant: the in-flight counter is not incremented.
MutTakesUncounted(t) ==
  /\ pc' = [pc EXCEPT ![t] = "marking"]
  /\ slots' = slots \cup {t}
  /\ rr' = [rr EXCEPT ![TaskAgent(t)] = RotatePast(@, SessionOf[t])]
  /\ woken' = (woken \cup FairWaiters) \ {t}
  /\ UNCHANGED inFlight
TakeSlot(t) ==
  /\ pc' = [pc EXCEPT ![t] = "marking"]
  /\ slots' = slots \cup {t}
  /\ inFlight' = inFlight + 1
  /\ rr' = [rr EXCEPT ![TaskAgent(t)] = RotatePast(@, SessionOf[t])]
  /\ woken' = (woken \cup FairWaiters) \ {t}

\* A notified subagent re-checks the reserved headroom.  With the headroom
\* free at least two slots are idle, so it takes a slot without waiting again.
GateWake(t) ==
  /\ pc[t] = "gate"
  /\ t \in woken
  /\ t \notin cancelSig
  /\ \/ GateGrantable(t) /\ TakeSlot(t)
     \/ ~GateGrantable(t) /\ woken' = woken \ {t}
        /\ UNCHANGED <<pc, slots, inFlight, rr>>
  /\ UNCHANGED <<status, want, term, rows, laneVars, lockOwner, admitVars,
                 cancelVars, ext, steerClaim, promo, steerVars>>

FairWake(t) ==
  /\ pc[t] = "fair"
  /\ t \in woken
  /\ t \notin cancelSig
  /\ \/ FairGrantable(t) /\ TakeSlot(t)
     \/ ~FairGrantable(t) /\ woken' = woken \ {t}
        /\ UNCHANGED <<pc, slots, inFlight, rr>>
  /\ UNCHANGED <<status, want, term, rows, laneVars, lockOwner, admitVars,
                 cancelVars, ext, steerClaim, promo, steerVars>>

\* _release_slot: gives the slot back and notifies both conditions.
\* Mutant: only _fair_cond is notified.
MutNotifiesFairOnly(t) ==
  /\ slots' = slots \ {t}
  /\ inFlight' = IF t \in slots THEN inFlight - 1 ELSE inFlight
  /\ woken' = (woken \cup FairWaiters) \ {t}
  /\ UNCHANGED rr
ReleaseSlot(t) ==
  /\ slots' = slots \ {t}
  /\ inFlight' = IF t \in slots THEN inFlight - 1 ELSE inFlight
  /\ woken' = (woken \cup CondWaiters) \ {t}
  /\ UNCHANGED rr

ReleaseLock(t) == lockOwner' = [lockOwner EXCEPT ![SessionOf[t]] = NoTask]

\* The except-branches of _execute, which run with the execution lock already
\* released.  Only the CancelledError branch closes task.status at once, and
\* only a user's stop resolves the undrained steers there.
EnterHandler(t, w) ==
  /\ pc' = [pc EXCEPT ![t] = "handler"]
  /\ want' = [want EXCEPT ![t] = w]
  /\ status' = IF w = "cancelled" /\ term[t] = "open"
               THEN [status EXCEPT ![t] = "cancelled"] ELSE status
  /\ IF w = "cancelled" /\ cancelSrc[t] = "user"
     THEN Resolve(Undrained(t), "cancelled") ELSE UNCHANGED sst
  /\ UNCHANGED <<term, rows, laneVars, admitVars, ext, steerClaim, promo,
                 starget>>

\* The way out of a start or a turn that did not succeed: slot and lock are
\* given back before the except-branch begins.
\* Mutants: the slot leaks; the lock leaks.
MutLeaksSlot(t, w) ==
  ReleaseLock(t) /\ EnterHandler(t, w) /\ UNCHANGED slotVars
MutLeaksLock(t, w) ==
  ReleaseSlot(t) /\ EnterHandler(t, w) /\ UNCHANGED lockOwner
Abandon(t, w) == ReleaseSlot(t) /\ ReleaseLock(t) /\ EnterHandler(t, w)

\* The flip to RUNNING, under _state_lock after the awaits that freeze the
\* turn's context.  A task that was cancelled or claimed meanwhile gives its
\* slot back and leaves through the CancelledError branch.
MarkRunning(t) ==
  /\ pc[t] = "marking"
  /\ t \notin cancelSig
  /\ IF term[t] # "open" \/ status[t] \in TerminalStatuses \/ t \in cancelReq
     THEN Abandon(t, "cancelled") /\ UNCHANGED cancelVars
     ELSE /\ pc' = [pc EXCEPT ![t] = "announce"]
          /\ status' = [status EXCEPT ![t] = "running"]
          /\ pending' = pending \ {t}
          /\ running' = [running EXCEPT ![SessionOf[t]] = t]
          /\ UNCHANGED <<want, term, rows, arrivals, lockOwner, admitVars,
                         slotVars, cancelVars, ext, steerClaim, promo, steerVars>>

\* An exception while marking or announcing: no heartbeat was started yet.
StartFails(t) ==
  /\ "mark" \in Faults
  /\ pc[t] \in {"marking", "announce"}
  /\ t \notin cancelSig
  /\ Abandon(t, "failed")
  /\ UNCHANGED cancelVars

\* The RUNNING row and the task.running event are out; the turn begins.
Announce(t) ==
  /\ pc[t] = "announce"
  /\ t \notin cancelSig
  /\ pc' = [pc EXCEPT ![t] = "turn"]
  /\ UNCHANGED <<status, want, term, rows, laneVars, lockOwner, admitVars,
                 slotVars, cancelVars, ext, steerClaim, promo, steerVars>>

LeaveTurn(t, p, w) ==
  /\ pc[t] = "turn"
  /\ pc' = [pc EXCEPT ![t] = p]
  /\ want' = [want EXCEPT ![t] = w]
  /\ UNCHANGED <<status, term, rows, laneVars, lockOwner, admitVars, slotVars,
                 ext, steerClaim, promo, steerVars>>

TurnReturns(t) ==
  t \notin cancelSig /\ LeaveTurn(t, "hbstop", "succeeded") /\ UNCHANGED cancelVars

\* The handler raised, or its hard deadline expired.
TurnFails(t) ==
  /\ "turn" \in Faults
  /\ t \notin cancelSig
  /\ LeaveTurn(t, "unwind", "failed")
  /\ UNCHANGED cancelVars

\* The heartbeat task of a turn that returned has stopped: the slot is given
\* back and the driver goes on to settle, still under the execution lock.
AfterHeartbeat(t) ==
  /\ pc[t] = "hbstop"
  /\ pc' = [pc EXCEPT ![t] = "closeL"]
  /\ ReleaseSlot(t)
  /\ UNCHANGED <<status, want, term, rows, laneVars, lockOwner, admitVars, ext,
                 steerClaim, promo, steerVars>>

\* The finally-block of a failed or cancelled turn has run.
AfterUnwind(t) == pc[t] = "unwind" /\ Abandon(t, want[t])

HeartbeatStopped(t) ==
  t \notin cancelSig /\ AfterHeartbeat(t) /\ UNCHANGED cancelVars
Unwound(t) ==
  t \notin cancelSig /\ AfterUnwind(t) /\ UNCHANGED cancelVars

-----------------------------------------------------------------------------
(* Where a CancelledError lands. *)

Deliver(t) ==
  /\ t \in cancelSig
  /\ cancelSig' = cancelSig \ {t}
  /\ UNCHANGED <<cancelReq, cancelSrc, cancelOp>>

\* Before its first step the coroutine never runs at all.
CancelUnstarted(t) ==
  /\ pc[t] = "ready"
  /\ Deliver(t)
  /\ pc' = [pc EXCEPT ![t] = "done"]
  /\ UNCHANGED <<status, want, term, rows, laneVars, lockOwner, admitVars,
                 slotVars, ext, steerClaim, promo, steerVars>>

CancelLockWait(t) ==
  /\ pc[t] = "lock"
  /\ Deliver(t)
  /\ EnterHandler(t, "cancelled")
  /\ UNCHANGED <<lockOwner, slotVars>>

\* Leaving _fair_cond changes the head of the rotation: peers are notified.
CancelSlotWait(t) ==
  /\ pc[t] \in {"gate", "fair"}
  /\ Deliver(t)
  /\ ReleaseLock(t)
  /\ EnterHandler(t, "cancelled")
  /\ woken' = (IF pc[t] = "fair" THEN woken \cup FairWaiters ELSE woken) \ {t}
  /\ UNCHANGED <<slots, inFlight, rr>>

CancelStarting(t) ==
  /\ pc[t] \in {"marking", "announce"}
  /\ Deliver(t)
  /\ Abandon(t, "cancelled")

\* Mutant: the cancellation escapes the driver without its cleanup.
MutCancelEscapes(t) == Deliver(t) /\ LeaveTurn(t, "done", "cancelled")
CancelTurn(t) == Deliver(t) /\ LeaveTurn(t, "unwind", "cancelled")

\* _stop_running_heartbeat swallows a cancellation of its caller.
CancelSwallowed(t) == Deliver(t) /\ (AfterHeartbeat(t) \/ AfterUnwind(t))

\* Waiting for the claims of _mark_terminal under the execution lock.
CancelClosing(t) ==
  /\ pc[t] = "closeL"
  /\ Deliver(t)
  /\ ReleaseLock(t)
  /\ EnterHandler(t, "cancelled")
  /\ UNCHANGED slotVars

\* Inside an except-branch nothing catches it: the driver ends there.
CancelHandler(t) ==
  /\ pc[t] = "handler"
  /\ Deliver(t)
  /\ pc' = [pc EXCEPT ![t] = "done"]
  /\ UNCHANGED <<status, want, term, rows, laneVars, lockOwner, admitVars,
                 slotVars, ext, steerClaim, promo, steerVars>>

DeliverCancel(t) ==
  \/ CancelUnstarted(t) \/ CancelLockWait(t) \/ CancelSlotWait(t)
  \/ CancelStarting(t) \/ CancelTurn(t) \/ CancelSwallowed(t)
  \/ CancelClosing(t) \/ CancelHandler(t)

-----------------------------------------------------------------------------
(* Settlement: _mark_terminal(), by the driver or by somebody else (an      *)
(* admission that evicted the task, a cancel() of a driver that never ran). *)

ClaimEffect(t, st) ==
  /\ status' = [status EXCEPT ![t] = st]
  /\ term' = [term EXCEPT ![t] = "settling"]
  /\ steerClaim' = [steerClaim EXCEPT ![t] = "term"]

\* Mutant: a task that is already settled is settled again.
MutSettlesTwice(t) == steerClaim[t] = "free"
Claimable(t) == steerClaim[t] = "free" /\ term[t] = "open"

\* The driver gets the steer claim and finds the task open.
ClaimTerminal(t) ==
  /\ pc[t] \in {"closeL", "handler"}
  /\ t \notin cancelSig
  /\ Claimable(t)
  /\ pc' = [pc EXCEPT ![t] = IF @ = "closeL" THEN "settleL" ELSE "settleH"]
  /\ ClaimEffect(t, want[t])
  /\ UNCHANGED <<want, rows, laneVars, lockOwner, admitVars, slotVars,
                 cancelVars, ext, promo, steerVars>>

\* ... or finds it already settled (terminal_closing) and returns.
AlreadyTerminal(t) ==
  /\ pc[t] \in {"closeL", "handler"}
  /\ t \notin cancelSig
  /\ steerClaim[t] = "free"
  /\ term[t] # "open"
  /\ pc' = [pc EXCEPT ![t] = "done"]
  /\ IF pc[t] = "closeL" THEN ReleaseLock(t) ELSE UNCHANGED lockOwner
  /\ UNCHANGED <<status, want, term, rows, laneVars, admitVars, slotVars,
                 cancelVars, ext, steerClaim, promo, steerVars>>

ExtClaim(t) ==
  /\ ext[t] = "wanted"
  /\ ClaimsFree(t)
  /\ IF term[t] = "open"
     THEN ClaimEffect(t, "cancelled") /\ ext' = [ext EXCEPT ![t] = "owner"]
     ELSE ext' = [ext EXCEPT ![t] = "none"] /\ UNCHANGED <<status, term, steerClaim>>
  /\ UNCHANGED <<pc, want, rows, laneVars, lockOwner, admitVars, slotVars,
                 cancelVars, promo, steerVars>>

\* The terminal row is written, or the write fails and a record in memory
\* stands in for it.
TerminalRow(t) ==
  /\ term[t] = "settling"
  /\ term' = [term EXCEPT ![t] = "written"]
  /\ \/ rows' = rows \cup {t}
     \/ "terminal" \in Faults /\ UNCHANGED rows
  /\ UNCHANGED <<taskVars, laneVars, lockOwner, admitVars, slotVars, cancelVars,
                 ext, steerClaim, promo, steerVars>>

\* promote_pending_steers of the various callers of _mark_terminal.
PromotesSteers(t) ==
  /\ t \in rows
  /\ ext[t] # "owner"
  /\ \/ want[t] \in {"succeeded", "failed"}
     \/ pc[t] = "settleH" /\ cancelSrc[t] = "system"

MustPromote(t) == term[t] = "written" /\ PromotesSteers(t) /\ Undrained(t) # {}

\* _promote_undrained_steers: one follow-up of the same session and kind is
\* reserved for all leftover steers.  This path does not hold the gate.
Promote(t, f) ==
  /\ MustPromote(t)
  /\ pc[f] = "fresh"
  /\ SessionOf[f] = SessionOf[t]
  /\ Kind[f] = Kind[t]
  /\ \E v \in ReserveVictims(SessionOf[t], "followup", DefaultPolicy) :
       victim' = [victim EXCEPT ![f] = v]
  /\ pc' = [pc EXCEPT ![f] = "reserved"]
  /\ promo' = [promo EXCEPT ![t] = f]
  /\ Resolve(Undrained(t), "reclaimed")
  /\ UNCHANGED <<status, want, term, rows, laneVars, lockOwner, gate, mode,
                 slotVars, cancelVars, ext, steerClaim, starget>>

\* No follow-up: the queue is full, or no task can be created.
PromoteRefused(t) ==
  /\ MustPromote(t)
  /\ \/ ReserveVictims(SessionOf[t], "followup", DefaultPolicy) = {}
     \/ \A f \in Lane(SessionOf[t]) : pc[f] # "fresh" \/ Kind[f] # Kind[t]
  /\ Resolve(Undrained(t), "rejected")
  /\ UNCHANGED <<taskVars, term, rows, laneVars, lockOwner, admitVars, slotVars,
                 cancelVars, ext, steerClaim, promo, starget>>

Promoting(t) == promo[t] # NoTask /\ pc[promo[t]] = "reserved"
Reclaimed(t) == {x \in Steers : starget[x] = t /\ sst[x] = "reclaimed"}

\* The ownership transfer did not commit: abort_reservation, steers rejected.
PromoteFails(t) ==
  /\ "create" \in Faults
  /\ Promoting(t)
  /\ pc' = [pc EXCEPT ![promo[t]] = "aborted"]
  /\ victim' = [victim EXCEPT ![promo[t]] = NoTask]
  /\ Resolve(Reclaimed(t), "rejected")
  /\ UNCHANGED <<status, want, term, rows, laneVars, lockOwner, gate, mode,
                 slotVars, cancelVars, ext, steerClaim, promo, starget>>

\* The transfer committed and the follow-up is activated.
PromoteActivate(t) ==
  /\ Promoting(t)
  /\ ActivateEffect(promo[t])
  /\ Resolve(Reclaimed(t), "promoted")
  /\ UNCHANGED <<promo, starget>>

PromotionOver(t) ==
  /\ ~MustPromote(t)
  /\ ~Promoting(t)
  /\ promo[t] # NoTask => VictimSettled(promo[t])

Emit(t) ==
  /\ term[t] = "written"
  /\ PromotionOver(t)
  /\ term' = [term EXCEPT ![t] = "emitted"]
  /\ UNCHANGED <<taskVars, rows, laneVars, lockOwner, admitVars, slotVars,
                 cancelVars, ext, steerClaim, promo, steerVars>>

\* Mutant: the session's running entry is dropped whoever owns it.
MutDropsRunning(t) == running' = [running EXCEPT ![SessionOf[t]] = NoTask]
DropRunning(t) ==
  running' = [running EXCEPT ![SessionOf[t]] = IF @ = t THEN NoTask ELSE @]

\* The finally-block of _mark_terminal_claimed, reached after the lifecycle
\* notification or because publishing the terminal event raised.
Settle(t) ==
  LET s == SessionOf[t]
      a == TaskAgent(t)
      idle == (pending \ {t}) \cap Lane(s) = {} /\ running[s] \in {t, NoTask}
  IN
  /\ \/ term[t] = "emitted"
     \/ "emit" \in Faults /\ term[t] = "written" /\ PromotionOver(t)
  /\ term' = [term EXCEPT ![t] = "settled"]
  /\ steerClaim' = [steerClaim EXCEPT ![t] = "free"]
  /\ pending' = pending \ {t}
  /\ DropRunning(t)
  /\ rr' = [rr EXCEPT ![a] = IF idle THEN DropFrom(@, s) ELSE @]
  /\ woken' = IF idle /\ Holds(rr[a], s) THEN woken \cup FairWaiters ELSE woken
  /\ ext' = [ext EXCEPT ![t] = "none"]
  /\ IF ext[t] = "owner"
     THEN UNCHANGED <<pc, lockOwner>>
     ELSE /\ pc' = [pc EXCEPT ![t] = "done"]
          /\ IF pc[t] = "settleL" THEN ReleaseLock(t) ELSE UNCHANGED lockOwner
  /\ UNCHANGED <<status, want, rows, arrivals, admitVars, slots, inFlight,
                 cancelVars, promo, steerVars>>

-----------------------------------------------------------------------------
(* cancel() of one task: _cancel_runtime_tasks. *)

\* The driver never took its first step: it is still to take it, or it was
\* cancelled before it and never entered a handler.
Unstarted(t) ==
  /\ status[t] = "queued"
  /\ \/ pc[t] = "ready"
     \/ pc[t] = "done" /\ want[t] = "queued"

\* The task is marked under its steer claim, which stays held while the
\* request is persisted.
CancelBegin(t, src) ==
  /\ t \in Cancellable
  /\ Live(t)
  /\ steerClaim[t] = "free"
  /\ status[t] \notin TerminalStatuses
  /\ RepeatCancel \/ t \notin cancelReq
  /\ steerClaim' = [steerClaim EXCEPT ![t] = "cancel"]
  /\ cancelReq' = cancelReq \cup {t}
  /\ cancelSrc' = [cancelSrc EXCEPT ![t] = src]
  /\ cancelOp' = [cancelOp EXCEPT ![t] = IF Unstarted(t) THEN "unstarted" ELSE "started"]
  /\ UNCHANGED <<taskVars, term, rows, laneVars, lockOwner, admitVars, slotVars,
                 cancelSig, ext, promo, steerVars>>

\* The driver is signalled and the claim released; a task that had not
\* started when it was marked is settled by the caller.
CancelSignal(t) ==
  /\ steerClaim[t] = "cancel"
  /\ cancelSig' = IF DriverLive(t) THEN cancelSig \cup {t} ELSE cancelSig
  /\ cancelOp' = [cancelOp EXCEPT ![t] = "idle"]
  /\ IF cancelOp[t] = "unstarted" /\ pc[t] \notin {"marking", "announce"}
     THEN ClaimEffect(t, "cancelled") /\ ext' = [ext EXCEPT ![t] = "owner"]
     ELSE /\ steerClaim' = [steerClaim EXCEPT ![t] = "free"]
          /\ ext' = [ext EXCEPT ![t] = IF cancelOp[t] = "unstarted" THEN "wanted" ELSE @]
          /\ UNCHANGED <<status, term>>
  /\ UNCHANGED <<pc, want, rows, laneVars, lockOwner, admitVars, slotVars,
                 cancelReq, cancelSrc, promo, steerVars>>

-----------------------------------------------------------------------------
(* Same-turn input: admit_steer() and the turn's pending-input provider.    *)

\* The checks are made under the steer claim, which spans the persistence.
AdmitSteer(x, t) ==
  /\ sst[x] = "none"
  /\ running[SessionOf[t]] = t
  /\ steerClaim[t] = "free"
  /\ term[t] = "open"
  /\ t \notin cancelReq
  /\ status[t] = "running"
  /\ Kind[t] = "default"
  /\ steerClaim' = [steerClaim EXCEPT ![t] = "admit"]
  /\ sst' = [sst EXCEPT ![x] = "persisting"]
  /\ starget' = [starget EXCEPT ![x] = t]
  /\ UNCHANGED <<taskVars, term, rows, laneVars, lockOwner, admitVars, slotVars,
                 cancelVars, ext, promo>>

SteerPersisted(x) ==
  /\ sst[x] = "persisting"
  /\ steerClaim' = [steerClaim EXCEPT ![starget[x]] = "free"]
  /\ \/ sst' = [sst EXCEPT ![x] = "pending"]
     \/ "steer" \in Faults /\ sst' = [sst EXCEPT ![x] = "refused"]
  /\ UNCHANGED <<taskVars, term, rows, laneVars, lockOwner, admitVars, slotVars,
                 cancelVars, ext, promo, starget>>

\* drain_pending: the turn claims the whole batch for its next request ...
ClaimSteers(t) ==
  LET mine(d) == {x \in Steers : starget[x] = t /\ sst[x] = d} IN
  /\ pc[t] = "turn"
  /\ t \notin cancelSig
  /\ mine("pending") # {}
  /\ mine("claimed") = {}
  /\ Resolve(mine("pending"), "claimed")
  /\ UNCHANGED <<taskVars, term, rows, laneVars, lockOwner, admitVars, slotVars,
                 cancelVars, ext, steerClaim, promo, starget>>

\* ... and mark_applied: that request has started.
ApplySteers(t) ==
  LET claimed == {x \in Steers : starget[x] = t /\ sst[x] = "claimed"} IN
  /\ pc[t] = "turn"
  /\ t \notin cancelSig
  /\ claimed # {}
  /\ Resolve(claimed, "applied")
  /\ UNCHANGED <<taskVars, term, rows, laneVars, lockOwner, admitVars, slotVars,
                 cancelVars, ext, steerClaim, promo, starget>>

-----------------------------------------------------------------------------
Admission(t) == Activate(t) \/ EnqueueFails(t) \/ Admitted(t)

DriverStep(t) ==
  \/ DriverStart(t) \/ LockAcquire(t) \/ GateWake(t) \/ FairWake(t)
  \/ MarkRunning(t) \/ StartFails(t) \/ Announce(t)
  \/ TurnReturns(t) \/ TurnFails(t) \/ HeartbeatStopped(t) \/ Unwound(t)
  \/ DeliverCancel(t) \/ ClaimTerminal(t) \/ AlreadyTerminal(t)

SettleStep(t) ==
  \/ TerminalRow(t) \/ (\E f \in Tasks : Promote(t, f)) \/ PromoteRefused(t)
  \/ PromoteFails(t) \/ PromoteActivate(t) \/ Emit(t) \/ Settle(t)

\* Nothing is left to do: the runtime waits for a client.
Quiescent ==
  /\ \A t \in Tasks : pc[t] \in {"fresh", "done", "aborted"}
  /\ \A s \in Sessions : gate[s] = NoTask
  /\ UNCHANGED vars

Next ==
  \/ \E t \in Tasks, m \in Modes, p \in Policies : Enqueue(t, m, p)
  \/ \E t \in Tasks : Admission(t) \/ DriverStep(t) \/ SettleStep(t)
                      \/ ExtClaim(t) \/ CancelSignal(t)
  \/ \E t \in Tasks, src \in CancelSources : CancelBegin(t, src)
  \/ \E x \in Steers, t \in Tasks : AdmitSteer(x, t)
  \/ \E x \in Steers : SteerPersisted(x)
  \/ \E t \in Tasks : ClaimSteers(t) \/ ApplySteers(t)
  \/ Quiescent

\* The loop runs what is runnable; storage calls return; a turn ends (its hard
\* deadline ends it).  Nothing forces a client to enqueue, steer or cancel.
Fairness ==
  /\ \A t \in Tasks :
       /\ WF_vars(Admission(t)) /\ WF_vars(DriverStep(t))
       /\ WF_vars(SettleStep(t)) /\ WF_vars(ExtClaim(t)) /\ WF_vars(CancelSignal(t))
  /\ \A x \in Steers : WF_vars(SteerPersisted(x))

Spec == Init /\ [][Next]_vars
FairSpec == Spec /\ Fairness

-----------------------------------------------------------------------------
(* Properties. *)

\* What a turn in progress can rely on: its session is its own (no second
\* turn of the session is between its flip to RUNNING and its last cleanup),
\* it is the registered running task, it owns a slot, nobody has claimed its
\* settlement.
TurnOwnsSession ==
  \A t \in Tasks : pc[t] \in {"announce", "turn", "hbstop", "unwind"} =>
    /\ running[SessionOf[t]] = t
    /\ status[t] = "running"
    /\ t \in slots
    /\ term[t] = "open"
    /\ \A u \in Lane(SessionOf[t]) \ {t} :
         pc[u] \notin {"announce", "turn", "hbstop", "unwind"}

\* The in-flight counter counts exactly the slots held, however a turn ended
\* (cancelled while it was being marked, failed, settled by somebody else),
\* and never exceeds the limit.
SlotAccounting ==
  /\ inFlight = Cardinality(slots)
  /\ inFlight <= MaxConcurrency
  /\ \A t \in slots :
       pc[t] \in {"marking", "announce", "turn", "hbstop", "unwind"}

\* Subagents never occupy the slots kept back for other turns.
SubagentHeadroom ==
  Cardinality({t \in slots : Kind[t] = "subagent"})
    <= MaxConcurrency - SubagentReserved

\* No lost wake-up: a task asleep on one of the two conditions is one that
\* would not be granted a slot if it looked.
NoLostWakeup ==
  \A t \in Tasks \ woken :
    /\ pc[t] = "fair" => ~FairGrantable(t)
    /\ pc[t] = "gate" => ~GateGrantable(t)

\* An accepted steer never evaporates: once its turn is settled it was applied,
\* handed to a follow-up, given back (cancelled or rejected) -- or the turn's
\* terminal row is not durable, and startup recovery still finds both.
SteersResolved ==
  \A x \in Steers :
    (sst[x] \in {"persisting", "pending", "claimed", "reclaimed"}
       /\ term[starget[x]] = "settled") => starget[x] \notin rows

\* A settlement is never interrupted: no CancelledError is on its way to a
\* driver inside the unshielded part of _mark_terminal.
SettlementUninterrupted ==
  \A t \in cancelSig : pc[t] \notin {"settleL", "settleH"}

\* Eviction by overflow never hits a turn that has begun: a task that another
\* admission settles, or wants to settle, has not been flipped to RUNNING.
EvictsOnlyWaiting ==
  \A t \in Tasks : ext[t] # "none" => status[t] # "running" /\ running[SessionOf[t]] # t

\* The queue of turns that wait in a session stays within its limit, although a
\* promoted follow-up takes its place without the admission gate.
QueueBound ==
  \A s \in Sessions :
    Cardinality({t \in pending \cap Lane(s) : status[t] = "queued" /\ t \notin cancelReq})
      <= MaxPending

\* Comment in _cancel_runtime_tasks: "Started tasks finish through _execute's
\* cancellation path": a driver that has returned leaves a settled task.
StartedTasksFinish ==
  \A t \in Tasks : pc[t] = "done" /\ ext[t] = "none" => term[t] = "settled"

\* Turns of one session start in the order in which they were activated,
\* promoted follow-ups included: a turn never starts while an earlier one of
\* its session still waits, unless that one was cancelled or failed.
StartsInOrder ==
  [][\A t \in Tasks : pc[t] # "announce" /\ pc'[t] = "announce" =>
       FirstIn(t, {u \in pending \ cancelReq :
                    status[u] = "queued" /\ pc[u] # "handler"})]_vars

\* A settled task is settled for good, and its driver never runs a turn again.
SettledForGood ==
  [][\A t \in Tasks : term[t] = "settled" =>
       /\ term'[t] = "settled"
       /\ status'[t] = status[t]
       /\ pc'[t] \notin {"announce", "turn"}]_vars

\* Whatever is cancelled or fails, every driver returns: no task waits for ever
\* on a lock, a condition or a claim (_drive).  Nor does enqueue() keep a
\* session's admission gate for ever: whoever holds it gets through its
\* victim's settlement and lets the next caller in.
NobodyWaitsForEver ==
  /\ \A t \in Tasks : pc[t] = "ready" ~> pc[t] = "done"
  /\ \A s \in Sessions : []<>(gate[s] = NoTask)

\* Every activated task that no client cancels is settled in the end, though it
\* is interrupted, evicted or the follow-up of a turn that was cancelled.
EveryTaskSettles ==
  \A t \in Tasks \ Cancellable : pc[t] = "ready" ~> term[t] = "settled"
=============================================================================
