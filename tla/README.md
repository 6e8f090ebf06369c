# TLA+ models of OpenStarry Code

OpenStarry Code is a Python/asyncio gateway that runs LLM agent turns for many
sessions at once.  This directory holds TLA+ models of the parts in which
concurrency, cancellation and partial failure decide whether the program is
correct, TLC runs that check them on small instances, and TLAPS proofs that hold
for every instance.  File names below are relative to `src/openstarry_code/`.
The five modelled parts do not share state: a channel event or a cron handler
reaches the task runtime through `enqueue()`, a turn that needs a person's
consent waits on the approval queue, and what a turn emits goes through the session's
stream.  Each model has the others as its environment.

## Inventory

| part | state it keeps | operations | what is hard |
| --- | --- | --- | --- |
| task runtime (`gateway/task_runtime.py`) | task ledger, per-session queue, running entry, execution lock, admission gate, slot counter, round-robin, steer buffers | enqueue (reserve, persist, activate), execute, cancel, admit_steer, promote, settle | callbacks and cancellations between any two awaits, three parties that may settle a task, two conditions, one lock per session held across the turn |
| cron scheduler (`scheduler/`) | job rows in SQLite with a reservation token, running table, timer | add, update, pause, resume, remove, tick, run, run now, catch-up | read-modify-write across awaits, restart with jobs marked RUNNING, retry and back-off |
| approval queue (`application/approval_queue.py`, resolvers in `gateway/rpc_approvals.py`, `gateway/channel_dispatch.py`, `engine/agent.py`) | rows in SQLite: decision, use, claim token, deadline | request, resolve, extend, claim, finalize, apply, complete, reopen, expire, wait, consume | several surfaces and processes decide one row, a side effect between decision and visibility, deadlines against claims, restart |
| channel delivery (`channels/delivery_store.py`, `channels/manager.py`, `gateway/channel_dispatch.py`) | ingress journal with claims, transport lease, queue and memory sets of an adapter, dispatch loop | accept, claim, answer, accept the turn, complete, fail, recover, start, stop, renew | redelivery at any time, journal outages, crash between claim and completion, a second gateway that takes the lease over |
| session streams (`gateway/session_streams.py`, `event_bridge.py`, `websocket.py`; readers `cli/gateway_client.py`, web page) | numbered events in a bounded replay buffer, subscribers, one bounded writer queue for each connection, cursors of the readers, the page's recovery budget | record, trim, emit, subscribe with replay, snapshot, bootstrap, overflow close, retry | events between the steps of a subscription, recorded before they are delivered, lost connections, bounded retries that may skip the snapshot, a restart that numbers from one again |
| user input broker (`gateway/user_input_broker.py`) | parked questions | ask, answer, time out | answer races time-out |
| goals (`gateway/goal_service.py`, `session/goals.py`) | goal row with epoch and budget | claim, continue, complete, pause | stale epoch after a user edit |
| provider routing (`engine/routing/health.py`, `provider/selector.py`) | health of each profile | report, pick | half-open probing |
| recovery (`recovery/`) | journals, lock files, snapshots | stage, commit, roll back, take over a lock | crash at any point |
| turn engine, providers, tools, sandbox, memory, skills, CLI, desktop, web UI | - | - | their decisions depend on model output, the operating system or the user; they are the environment of the models |

`PROJECT.json` lists every part with its status and, under `hazards`, the lines
where something hard to test can go wrong.

## TaskRuntime

`TaskRuntime.tla` models `gateway/task_runtime.py`: how a turn is admitted, waits,
starts, runs, is cancelled and is settled.  Everything runs on one event loop, so
the code between two awaits that suspend is one action.  `_state_lock`,
`_fair_cond` and `_slot_cond` never suspend while held and so do not appear; the
locks that are held across an await do: the session's execution lock
(`lockOwner`), its admission gate (`gate`) and the task's steer claim
(`steerClaim`).

* **Admission.** `Enqueue` is `enqueue()` up to the storage call: the gate is
  taken and `reserve()` counts waiting tasks and reservations, refuses, or picks
  an overflow victim.  `EnqueueFails` is `abort_reservation`.  `Activate` is
  `activate()` up to the first suspension: the task becomes visible, an
  interrupt-mode admission cancels its session's tasks, a victim that still waits
  is cancelled and its settlement begun.  `Admitted` releases the gate.
* **The driver** (`_execute`). `DriverStart`, `LockAcquire`, `GateWake`,
  `FairWake`, `MarkRunning`, `Announce`, `TurnReturns`/`TurnFails`,
  `HeartbeatStopped`/`Unwound`, `ClaimTerminal`.  `pc` is the await at which the
  coroutine is suspended; the module's header lists the points.
* **Cancellation.** asyncio delivers a `CancelledError` at the await where the
  driver is suspended.  `cancelSig` holds the drivers with an undelivered one and
  `DeliverCancel` has one disjunct for each kind of await, because each has its
  own clean-up (nothing runs at all; the lock wait; the condition waits, which
  notify peers; the start, which gives the slot back; the turn; the heartbeat
  stop, which swallows it, so that a cancelled turn may be recorded as succeeded; the
  except-branch, which does not catch it).
* **Settlement** (`_mark_terminal`). Claim, terminal row, promotion of leftover
  steers, terminal event, final clean-up are five steps, taken by the driver or,
  for a task that never started, by the admission or the `cancel()` that ended it
  (`ext`).
* **cancel()** of one task: `CancelBegin` marks it under the steer claim,
  `CancelSignal` signals the driver after the request was persisted.
* **Steers**: `AdmitSteer`, `SteerPersisted`, `ClaimSteers`, `ApplySteers`, and
  the promotion of what a turn leaves over (`Promote`, `PromoteActivate`, ...).

Abstractions. A time-out is a failure (same clean-up, other wording).  The queue
modes steer and interrupt of `enqueue()` do the same here and are one mode.  The
heartbeat is enabled.  The per-session write lock is passed through without
contention.  `Faults` names the environment failures that may happen in a run:
`create_agent_task`, marking, the turn, the terminal row, a steer's row, the
terminal event.  The steer claim is not FIFO in the model, which only adds
behaviours.  The branch of the promotion that loses its durable claim to another
process is left out.  A driver that was created is
started before a storage call issued later returns, so `Enqueue` never overlaps a
"ready" driver of its session.  Not modelled yet: collect mode, session-wide
cancel and reset, `shutdown()`, startup recovery, `apply_overflow_policy`, and
cancellation of the coroutine that called `enqueue()`.

### Runs

| run | instance | checks |
| --- | --- | --- |
| `turns_lane` | 2 tasks, 1 session, 1 slot, 1 steer, every fault, repeated cancel by user and system, both modes | `TypeOK`, `TurnOwnsSession`, `SlotAccounting`, `SteersResolved`, `SettlementUninterrupted`, `SettledForGood`, `StartsInOrder` |
| `turns_queue` | 3 tasks of a session, a subagent of another one, queue of 1, 2 slots with 1 reserved, both overflow policies, 1 steer | `EvictsOnlyWaiting`, `QueueBound`, `SubagentHeadroom`, `NoLostWakeup` |
| `turns_live` | 2 tasks, queue of 1, drop_oldest, both modes, 1 steer, repeated cancel of one task, failing events | `NobodyWaitsForEver`, `EveryTaskSettles` |
| `cancel_leak` | 1 task, one cancel | violates `StartedTasksFinish` |

Two tasks of one session are enough for everything that concerns a turn and its
successor; three are needed for a victim, its replacement and a promoted
follow-up; a second session for a waiter that must be woken when a turn of the other
returns, or when a victim is cancelled while it waits for a slot.  `NoLostWakeup` meets
one waiter of `_fair_cond` at a time there; that several lose no wake-up rests on the
theorem.  Bounds:
`Cancellable` (who is cancelled), `RepeatCancel` (again?), the size of `Tasks`
(how many turns a behaviour has).

What the code does not guarantee, and the runs therefore leave out (`hazards` in
`PROJECT.json` gives the lines):

* A turn that is cancelled while it starts may never be settled (`cancel_leak`, a
  finding).  An interrupt that meets a failing turn ends the driver in the same
  except-branch.  So `EveryTaskSettles` is about tasks no client cancels, and
  `turns_live` has no failing turns.
* An interrupt that cancels a promoted driver before its first step leaves it
  unsettled; this takes three tasks, and `turns_live` has two.
* The overflow victim is chosen by status alone, so it can be a task that is already
  leaving, and the queue then exceeds its limit by one.  With `drop_oldest` as the
  runtime's own policy, a promotion picks such a task while an admission waits for its
  settlement: that of a task about to start (four tasks and a failing turn) or one
  that a `cancel()` holds up.  Also, an interrupt-mode admission skips the limit, and
  the next one may take a task it cancelled for its victim.  `turns_queue` has neither;
  its promotions use the default, `reject_newest`.
* The follow-up promoted by a failed turn may run before the failed turn's terminal
  event is published, since the except-branches hold no execution lock.

Fairness (`FairSpec`): weak fairness of each task's admission, driver, settlement
and cancel steps and of a steer's persistence.  asyncio runs every ready
callback, SQLite calls return or raise, and a turn ends because `_execute` wraps
it in a hard deadline.  Clients need not do anything.

### Proofs

`TaskRuntimeProofs.tla` proves, for every finite set of tasks and any sessions,
agents, steers, limits and faults that meet the module's assumptions, that
`TypeOK`, `TurnOwnsSession`, `SlotAccounting`, `SubagentHeadroom`,
`EvictsOnlyWaiting` and `SettlementUninterrupted` are invariants of `Spec`.

None is inductive.  `IInv` adds: who is inside the locked region owns the
execution lock (`LockInv`); `acquired_slot` is set exactly between grant and
release (`SlotInv`), and the counter is the number of such tasks (`Counted`, also
what keeps the counter a natural number); a turn in progress is registered,
RUNNING and open (`RunInv`); a settlement in progress holds the steer claim and
has exactly one owner (`TermInv`); a task somebody else settles was marked
cancelled before it could begin (`ExtInv`); a persisting steer holds its turn's
claim alone (`SteerInv`), without which its release could free a settlement's
claim; a driver about to settle wants a terminal status (`WantInv`); a subagent
passes the headroom gate before it waits for a slot (`GateInv`).

`TaskSteerProofs.tla` proves `SteersResolved` and `SettledForGood`.  The first needs
`Steering`, which follows a steer through the life of its turn: a turn that was given
one has begun, so that its own driver settles it (`BegunInv`, `RunningInv`); while a
steer is persisted its turn is open and no user has cancelled it, because both hold
the steer claim (`PersistInv`); a user's stop takes the steers back before it marks
the turn (`StopInv`); from the terminal event on nothing is left undrained but where
the terminal row failed (`DrainedInv`), the one case in which the ledger still shows
both; what was taken back for a follow-up waits for the one that its turn has
reserved (`ReclaimedInv`, `PromoInv`).

`TaskLaneProofs.tla` proves `NoLostWakeup` and `StartsInOrder`.  A sleeper on
`_fair_cond` is passed over only if another session heads the rotation, so `Waiting`
says that whoever waits is queued or signalled (`QueuedInv`, `SignalledInv`) and that
its session takes part in the rotation (`RotationInv`).  `Ordered` adds that the tasks
before a lock owner in the order of activation no longer wait (`BehindInv`), and what
a finished driver leaves behind (`LeftInv`).

All of these hold for any tasks, sessions, agents, limits, steers, modes and faults.

`QueueStaysBounded`, in the same module, proves `QueueBound` under two conditions, which
the first of the cases above shows to be needed: no interrupt-mode admissions, and
`reject_newest` as the runtime's own policy (both the defaults; single channels may
still ask for `drop_oldest`, and everything may be cancelled or fail).  `RoomInv`
counts, instead of the tasks that wait, those that nobody is about to evict and the
places reserved; `VictimInv` makes this enough: only the holder of the gate has a
victim, and keeps it until it is settled.
Liveness is outside the prover's reach.

## CronScheduler

`CronScheduler.tla` models `scheduler/`: the job rows and their reservation token
(`persistence.py`), the tick loop and start-up catch-up (`timer.py`), the state
machine after a run (`jobs.py`), the client operations (`ops.py`) and the manual
run (`engine.py`).  A statement on the one SQLite connection is atomic; a
coroutine that reads a row and saves it later holds a copy in between (`snap` for
runs, `csnap` for clients), and that is where the interleavings are.

* **Rows.** `Reservable`/`ReservedBy` are the WHERE and SET clause of the
  reserving UPDATE, `Due` that of `iter_due`; `Applied` is
  `apply_reserved_result` with `_apply_result_state` and
  `finalize_reserved_missing_handler`, `Released` is `release_reservation`.
* **Timer.** `TickRead` is `_tick` up to its reservations (due jobs, refire gap,
  slots), `TickReserve`/`TickRejected` one reservation each, `TickEnd` the return
  to the loop.
* **A run**, by the timer, catch-up or `run_job_now` (`RunNow`): `Picked` reads the
  reserved row back, `ExecEnds` is the handler with its time-out, then `Record`
  (`save_execution`), `ApplyRead`, `ApplySave`, `Notified`.  A job without handler
  is finalized first and recorded afterwards.
* **Life of the process.** `Stop` cancels the loop and the listed tasks, which
  release their reservations (`ReleaseRead`, `ReleaseSave`); `Crash` loses all
  memory; `Recover` and `CatchUp` are `startup_catchup`.  It is awaited before the
  gateway serves clients and before the loop starts, so nothing interleaves with it
  and each half is one step.
* **Clients.** `Add`, and `Get` followed by `PauseSave`, `ResumeSave`,
  `UpdateSave` or `RemoveDelete`.  An operation that raises, or finds no row,
  changes nothing and is no step.

Abstractions. Time is relative: `next_run_at` is unset, to come or passed,
`backoff` and `recent` say whether `backoff_until` and the refire gap are still in
force, and `Elapse` lets any of them pass; `overdue` keeps the order in which jobs
became due, which is what `ORDER BY next_run_at` sees.  CRON and EVERY are one kind
(their next run is in the future).  A run's identity is its token; a token that
occurs nowhere any more is used again in place of a new uuid.  A finished task
leaves `_running` at once; the code drops it in the next tick, before it counts.
An UPDATE and its commit are one step.  Ghost variables `streak` and `won` record
failures in a row and successes.  `cancel_running` has no caller.  Not modelled:
idempotent creation, pruning, a storage call that raises, cancellation of the
caller of `run_job_now()`.

### Runs

| run | instance | checks |
| --- | --- | --- |
| `cron_limits` | 1 job of either kind, 3 runs, limits 2 and 1, delete, run now, crash, shutdown, failing schedules, 2 lives | `OneRunPerJob`, `ReservationOwned`, `FailuresBounded` |
| `cron_ops` | 1 job, 2 runs, pause, resume, update, crash, 2 lives | `TypeOK`, `RestartHeals` |
| `cron_live` | 2 jobs, one without handler, 3 runs, 1 slot, catch-up of 2, crash, 2 lives | `ConcurrencyBound`, `NoJobStuck` |
| `cron_remove_undone` | 1 job, delete | violates `DeletedForGood` |
| `cron_overlap` | 1 job, 2 slots, update | violates `OneRunPerJob` |

One job suffices wherever the property is about one row and its writers; two runs
make an overlap, three also leave a stale run from before it; two jobs compete for
a slot, and one of them is left over by a catch-up of one.  Bounds: `Runs`
(reservations alive at a time), `MaxBoots`, and the code's own limits made small.
`OneShotOnce` and `FailuresBounded` speak of results that were written to the row:
a crash between `save_execution` and the row's update forgets the result.

Fairness (`FairSpec`): the loop ticks (its wait is bounded by `MAX_TIMER_DELAY`),
handlers end (`execute_with_timeout`; a job with `timeout_seconds <= 0` has no such
bound and is outside this assumption), statements return, time passes and a dead
process is restarted.

The two violations have one cause: rows are written back whole, one await after
they were read.  They are listed under `findings` with the docstring or test each
contradicts.  The same cause loses a `pause_job()` that falls between the read and
the save of `apply_reserved_result`, and lets a `pause_job()` that read the row
during a run write the finished run's token back, so that the job is busy until the
next restart.  `RestartHeals` bounds the damage: a restart clears every token that
no run owns.

### Proofs

`CronSchedulerProofs.tla` proves `TypeOK` for all client operations.  What makes it
inductive is `Sound`: a row that may run, or whose token a run holds, is below the
error limit, and this holds for the copies too (`RowsInv`), so that writing back an
old copy cannot push the counter past its limit.

`ExclusiveRuns` and `ReservationsOwned` prove `OneRunPerJob` and
`ReservationOwned` for any number of jobs, runs, clients and restarts while no
operation rewrites a row it read earlier (`Rewrites = {}`: clients add, delete and
run jobs).  The inductive invariant `LockInv` adds: an active run is named in its
row as long as there is one (`OwnInv`); ids are handed out before use
(`CreatedInv`), so that `Add` cannot meet a run; nothing runs before the timer is up
and recovered rows are free (`DownInv`).  `cron_overlap` shows
that the condition is needed.

`CronLimitsProofs.tla` proves `RestartHeals` for all client operations: what recovery
frees no stale copy can undo, since nothing else runs until the timer is up
(`DownInv`).  Under `Rewrites = {}` it proves `FailuresBounded` and `OneShotOnce`: an
update that was read before a result was applied writes the old status and counter
back, so that both fail with rewrites (`OneShotOnce` is proved only; no run checks it).
Neither is inductive, because a failure is recorded (`streak`) before the row counts it
(`errs`).  `LimitInv` bounds the
difference: the row lags by one while a failed run is about to write it (`StreakInv`,
and `CopyInv` for the copy the run has read), a recorded success has ended the streak
(`SuccessInv`), a job without handler is counted before it is recorded (`MissingInv`),
a row that may run again has an error to spare (`BudgetInv`), and a one-shot that
succeeded is out of service or its run is about to see to it (`WonInv`).

`ConcurrencyBound` (`BurstsStayBounded`) is about a tick that counts `_running` once
and reserves afterwards, one row at a time.  `SlotInv` says why this is enough: the
runs listed, those still on the tick's list and the one being read back fit the limit
together (`RoomInv`); outside a tick there are none of the latter two, and at most
one is being read back (`PickInv`); the table misses no scheduled run that executes
(`ListedInv`).  The last needs `OneRunPerJob`, because a second run of a job would
take the first one's place in the table; hence `Rewrites = {}` here too.  The set of
jobs may be infinite: finiteness of the table is part of the invariant.

The liveness properties are model-checked only.

## ChannelDelivery

`ChannelDelivery.tla` models how an inbound event of a managed channel becomes one
turn although providers redeliver, processes die and two gateways may share a state
directory: the ingress journal and the transport lease
(`channels/delivery_store.py`), the channel's life in a process
(`channels/manager.py`) and the dispatch loop (`gateway/channel_dispatch.py`).

* **Journal.** `Deliver` is `accept_inbound` and the `put_nowait` after it, with its
  four outcomes: refused as a duplicate, journaled, handed out after a recovery, or
  accepted in memory only because the journal is unavailable.  `ClaimJournaled`,
  `ClaimMarked` and `ClaimPassed` are the branches of `claim_inbound`; `Complete`
  and `Fail` are `complete_inbound` and `fail_inbound`, which change a row only
  under their own claim token (`OwnsClaim`).
* **Dispatch loop.** `Claim`, then `Answer` (denial, command, approval reply, no
  capacity) or `AcceptTurn` (turn and receipt in one transaction), then `Complete`.
  `Raised` is an exception that leaves the loop, with the attempts and cycles of
  `_dispatch_with_retry` as one budget.
* **Channel.** `Start` is `_safe_start` (lease, recovery, adapter), `Stop` the locked
  stop of a restart or rebuild, `Renew` and `Lapse` the lease, `Crash` the end of a
  process, whose successor has an empty memory.

A gateway stands for its claim token and for its lease owner; the module's header
says why this is sound.  Not modelled: the outbox of replies, streaming, pairing and
admission policy, several channels, events without a native id, a storage error of
`accept_inbound` while recovered events are queued again.

`channel_journal` has two gateways, one event, an adapter with `enqueue()`, one
survived exception, a memory of one passed event, one crash, and every fault but
`rebuild` and `renewal`.  One event suffices since rows, markers and receipts are
per event and the loop handles one at a time; what needs two events, the eviction
of a passed event by another one, is not reached.  It checks `OneTurnPerEvent`,
`CompletedIsFinal`, `CompletedOnce`, `MarkersQueued`,
`RestartAdopts` and, under weak fairness of each loop and renewal task (asyncio runs
both again and again), `QueuedIsDispatched` and `FencedStops`.

Outside that instance the code promises less, and the model shows it:

* With `Adapter = "handler"` (QQ and Matrix have no `enqueue()`) `RestartAdopts`
  fails: interrupted claims stay `processing` and every redelivery is refused, where
  `docs/channels.md:133` says that they return to `accepted`.  An adapter that drops
  ids it has seen (`"dedupe"`) does not queue what was recovered in its process.
* With the fault `rebuild`, `reconcile()` drops the queue but not the markers, and
  `MarkersQueued` fails.  With `renewal`, a storage error ends the renewal task and
  `FencedStops` fails.
* An event that was completed and is redelivered while the journal is unavailable
  at both calls is dispatched again; `accept_inbound` documents the choice.

`ChannelDeliveryProofs.tla` proves `OneTurnPerEvent` and `CompletedIsFinal`
for all gateways, events, adapters and faults, `rebuild` and
`renewal` included.  The inductive invariant says that a turn's receipt exists
(`TurnInv`), that a completed row was dealt with and carries no claim (`DoneInv`) and
that a loop about to complete has dealt with its event (`FinishInv`).  `TypeOK` is
proved too, on lemmas about what the queue and the memory of passed events hold after
each of their operations (`MovedSet`, `TouchedSet`, `RequeuedSet`, ...).

`CompletedOnce` holds under the same conditions, that is without any.  `MemoryInv`
relates the process's memory and the journal: a marked event is not among the passed
ones (`MarkInv`); a claim is durable or its event has been passed (`ClaimInv`); what
the process finished is completed in the journal or among the passed events, which a
claim looks up first (`FinishedInv`).

`MarkersQueued` is proved for every adapter and fault but `rebuild`, and
`RestartAdopts` for an adapter with `enqueue()` that is not rebuilt; the first two
points above say why the code promises no more.

## ApprovalQueue

`ApprovalQueue.tla` models human approvals.  Every method of
`application/approval_queue.py` is one transaction on a row, and an action here.
`Resolvers` are the surfaces that approve (web UI, channel, automatic review), in this
process or another one on the same table: `Claim`, `Finalize`, then the choice's side
effect, which awaits and ends in `Complete`, `ApplyFails` (the row is reopened),
`AuthorityGone` (it is expired) or `Cancel` (nothing is undone).  Requests without
side effect, and denials, are resolved in one step (`Resolve`); a denial in the
sandbox takes the matching requests along.  Waiters are parked tool calls: `Wait`,
`Poll` (one round of the loop, with expiry), `Consume`.  `SessionEnds` and `Restart`
expire what nobody will resume.  A claim's time to live is not counted: `ReleaseStale`
may happen once its resolver is gone or, with the fault `stall`, at any time before
it finalizes.

`DecisionGate.tla` is what the queue promises its readers: an approval is opened
once, decided once, and its permission is used at most once.  The refinement mapping
is the test that `status` and `wait` make: a row is undecided until it is resolved
*and* unclaimed.  Claims, finalized but incomplete rows, reopening and stale claims
are invisible through it; each kind of expiry is a decision.  Uses are counted as tool
runs, not by the row's `consumed`: the promise is about what happens, the column only
how it is kept.

`approvals` has two approvals (one or both with a side effect), two resolvers, two
waiters, one manual extension, one restart and every fault.  Two resolvers are
needed for a stolen claim, two waiters for a second use, two approvals for a
denial that takes another one along.  It checks `OneApplier`, `ApprovedIsApplied`,
the refinement `DecidedOnce`, and `WaitsEnd` under weak
fairness of `Poll` (the loop sleeps at most `poll_interval`) and of the passing of
time.  `MaxExtends` matters for `WaitsEnd`: a user, or a waiter that
calls `wait` with a timeout again and again, can postpone an expiry for ever.  It may
stop (every approval used), so deadlock is not checked.

What the code does not promise, though the model has it: `wait` raises instead of
answering when its deadline lapses under a claim, and the grant that follows has no
waiter; an apply that is cancelled, or a crash between finalize and complete, leaves a
row that is resolved and claimed for ever, and a wait without deadline hangs; a row
that is finalized when its session ends is skipped, and reopened if its apply fails.

`ApprovalQueueProofs.tla` proves `TypeOK`, `OneApplier`, `ApprovedIsApplied`,
`DecisionStands` (what a waiter was told stays so), `RunsOnce` and the refinement
`Spec => DecidedOnce` for any approvals, resolvers, waiters and faults.  `IInv` adds that only existing rows are
decided, claimed or waited for and that a claimed row is not consumed (`ClaimInv`), and
that each run has used its approval up (`UsedInv`).  The step lemma `InvNext` also
shows `Stable`: no step touches what a reader sees of a visible decision.  From it the
refinement needs no induction of its own: a step opens a row, uses one, or is a
`Decide` (`GateDecides`).  `WaitsEnd` is model-checked only.

Not modelled: channel codes, node settings and run modes, event listeners, the owner
check of the RPC handler.

## SessionStreams

`SessionStreams.tla` models the event stream of one session from the moment an event
is recorded to the reader that shows it.

* **Registry** (`gateway/session_streams.py`). `Record` numbers an event and trims the
  buffer, text deltas and heartbeats first (`lossy`); `Complete` is the test by which
  `replay` says that nothing is missing.  `Restart` is `reset_session_streams`: a new
  generation that numbers from one.
* **Emitting.** `Emit` records and queues an event for every subscriber in one step,
  since `send_event` does not suspend while the writer queue is on.  Compaction events
  are recorded at once and delivered by a background task: `EmitLate`, `DeliverLate`.
* **Requests.** A page's subscribe registers, replays and answers in one step
  (`SubscribePage`), its pipelined `Snapshot` in another.  A terminal reads
  `Bootstrap`, subscribes (`SubscribeTerminal`) and is answered once the metadata is
  read (`Hydrated`), or not (`HydrateFails`).  A connection's requests are handled one
  after the other.
* **Writer queue** (`gateway/websocket.py`). `Enqueued` is `_enqueue_frame`: session
  events and answers are control frames, which are never dropped; one that finds the
  queue full closes the connection (`Overflowed`, `Lose`).
* **Readers.** `Receive` is the writer's next frame and what the reader makes of it:
  the page's cursor and generation (`Observed`, `Accepted`), the terminal's
  collecting, sorting and dropping of what it has seen (`Unseen`).  A page waits for
  both answers: that of its subscription is kept (`Held`) until the snapshot comes and
  becomes the new base (`Settled`).  An attempt that asks for no snapshot goes live with
  the base it has (`SettledBare`).
* **Recovery of a page** (`useChatSessionBootstrap.ts`). `rpc.ts` reopens a lost socket
  for ever; whether the page then subscribes is for its bootstrap to decide.
  `PageBootstrap.tla` has the steps of one run as operators on a record: two attempts
  in a live phase (`NextAttempt`, `Failed`), then `Degraded`; one late recovery when a
  socket opens afterwards (`Reopened`); a new run, or a resumed phase, when a live page
  loses its socket, depending on whether history is being read (`Dropped`); no snapshot
  once an attempt had its subscription answered and lost the snapshot (`skip`); the
  user's retry (`Retried`).  `SessionStreams` applies them at `Connect`, `Lose`,
  `Restart`, `Receive`, `NoSocket` (an attempt or its phase times out, or a handshake
  fails, before the socket is open), `HistoryEnds`, `RetryLive` and `RetryHistory`.

A page that overflows, loses its connection or sees the gateway restart subscribes
again from its cursor, as often as its bootstrap allows; a terminal is started anew.

`streams` has one reader at a time, a page or a terminal (`MaxClients`), since readers
share nothing but the stream.  A buffer of two makes trims, holes and gaps; a queue of
four is the least that holds a replay of two and two answers.  Three events, or two
after a restart, come in every order with the requests (`MaxSeq` counts events and lives
together: `seq + gen`), one of them late (`MaxLate`).  Losses of the network, failed
hydrations and the user's retries have no bound: a page's run is a finite record, so
every sequence of them is covered.  It checks `TypeOK`, `ReplayHonest`, `NothingMissed`,
`InOrderOnce`, `PageSkipsOnlyLate`, `AttemptsBounded` and `EveryoneCatchesUp`.  The
bounds end the stream, so deadlock is not checked.

Fairness (`FairSpec`): writers, delivery tasks, requests, the closing of an overflowed
connection, and the reopening of a page's socket (`_scheduleReconnect` has no last
attempt).  That the page subscribes over it is no assumption: `Connect` does what
`Reopened` says, so a degraded page has an open socket and stays off.  The user and the
end of a history read have no fairness.  Since the network may fail for ever,
`EveryoneCatchesUp` speaks of what happens again and again: a page is live at the end of
the stream, or degraded; it is not connecting for ever.  When the failures end nothing
takes it out of that state, so that it stays caught up or degraded.

`AttemptsBounded` counts the attempts begun since the page was last live or was retried
by its user (`tries`): two, and two more for a late recovery.  The test at
`useChatSessionBootstrap.test.ts:558` has one such sequence.

What the code does not promise, and the properties therefore say:

* An event that was recorded ahead of its delivery can be overtaken by a later one.  A
  live page, which drops what is not past its cursor, then never shows it, and a
  terminal shows it late.  The comment at `gateway/boot.py:3967` calls that delivery
  at-least-once; `async` in `PageSkipsOnlyLate` and `InOrderOnce` excepts exactly these events.
* `skipSnapshot` is kept until the live phase is begun anew.  A page that lost its snapshot after
  the answer to its subscription goes live, at its next attempt, without a new base.
  Text deltas that were trimmed from the replay meanwhile are then skipped, although
  `replay_complete` is TRUE, which speaks of the other events only.
  `PageSkipsOnlyLate` therefore owes such a page only what may not be lost, up to its
  last answer (`from`), and everything afterwards.
* An answer that calls the replay incomplete makes the page load its history again,
  when the answer is applied.  If it was lost, or its attempt was thrown away with the
  snapshot, nothing comes of it; a later answer from the advanced cursor, or in the
  generation the page has adopted, may be complete.  `PageSkipsOnlyLate` excepts what
  lies before such an answer (`gap`), whether or not the page acted on it.
* A page that has used its attempts up stays degraded, over an open socket, until its
  user retries or, once, another socket opens.  `EveryoneCatchesUp` excepts it.
* With a writer queue smaller than the replay window and two answers (allowed:
  its minimum is 16, the window is 500) a page that is far behind overflows the queue
  at every attempt, and is degraded after each retry.
* With `ws_writer_queue_enabled = False`, outside the model, every send suspends; a
  live event may pass a replay in progress and hide the rest of it from a page.

`SessionStreamsProofs.tla` proves every invariant of the run, for every window, queue
size and any events, readers, losses and restarts.

* `ReplayHonest`: the inductive part (`FrontFirst`) is that an event that may not be
  lost leaves the buffer from the front only, so that the first event in it tells what
  is gone.
* `NothingMissed`, `InOrderOnce` and `PageSkipsOnlyLate` are all about a client and
  what is on its way to it; `ReaderInv` says of every client that its frames are in
  order and none is ahead of the stream (`FramesInOrder`); that a terminal's frames
  come after what it has seen (`TerminalOrder`) and that seen, queued and late events
  together are what it is owed (`TerminalGets`); that a page's cursor belongs to the
  generation it names, and that what it has passed over may be lost, was recorded ahead
  or was called missing (`PageCursor`); that what a registered page does not have, and
  need not do without, is on its way (`PageGets`), after its cursor and after the answer
  ahead of it (`PageOrder`); and that a snapshot on its way is no older than the page's
  cursor, the answer kept for it and what is ahead of it, and is followed by every event
  that it does not cover (`PageSnapshot`), which is what makes taking it as the new base
  safe.  An attempt without a snapshot keeps the old base; there `PageCursor` and
  `ReplayHonest` together say what the replay leaves out.  The subscription of a terminal
  needs `ReplayHonest`, too.
* `AttemptsBounded`: an attempt is counted in its live phase and once more if the late
  recovery has been used (`CountedRuns`); each step of `PageBootstrap` keeps this, which
  the lemmas `RunSteps`, `RunTries` and `RunLate` prove without the stream.
* `TypeOK` comes from the same invariants.

`Ascending`, the sorted sequence of a set, is defined by what it is, not by a recursion;
that it exists (`SortExists`) is proved from the least number of a set, so that no
induction theorem is needed.  `EveryoneCatchesUp` stays with TLC.

Not modelled: the contents of the live snapshot, ticks and frame numbers, readers of
before generations, gateways without the snapshot request (`METHOD_NOT_FOUND`), a
subscription that fails on an open socket (errors that are not retried end the phase
at once; a time-out recycles the socket and is a loss here), what the page subscribes to from
outside its bootstrap (`useChatRpcEventHandlers.ts:1030`, `ChatView.vue:2426`), a
terminal's second subscription and its backlog, unsubscribing.

## Plan

1. TaskRuntime: session-wide cancel, shutdown, restart with recovery of queued and
   running rows, collect mode.
2. The composition of ApprovalQueue with TaskRuntime's settlement, which expires a
   session's approvals; of ChannelDelivery with `enqueue()`.
3. The reply outbox of ChannelDelivery; user input broker; goals;
   provider health.  CronScheduler: failing storage calls, cancelled manual runs.
4. Proofs: the main invariant of each new module.

Liveness under fairness is outside the prover's reach and stays with TLC.
