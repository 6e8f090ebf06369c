--------------------------- MODULE CronScheduler ---------------------------
(***************************************************************************)
(* The cron scheduler: the job rows of scheduler/persistence.py, the tick  *)
(* loop and start-up catch-up of scheduler/timer.py, the post-run state    *)
(* machine of scheduler/jobs.py, the client operations of scheduler/ops.py *)
(* and the manual run of scheduler/engine.py.                              *)
(*                                                                         *)
(* Everything runs on one event loop over one SQLite connection, so a      *)
(* statement is atomic and two statements of one coroutine are not: a      *)
(* coroutine that reads a row, changes it and saves it holds a SNAPSHOT    *)
(* in between.  save() writes every column and inserts a missing row.      *)
(*                                                                         *)
(* pc[r], the statement run r performs next:                               *)
(*   free     no such run (its token is available as a new uuid)           *)
(*   pick     reserved by the UPDATE; reads the row back                   *)
(*   stagger  start-up run that sleeps before it begins                    *)
(*   exec     inside the handler                                           *)
(*   record   save_execution                                               *)
(*   apply    reads the row to apply the result to                         *)
(*   save     holds the row it read and writes it back                     *)
(*   notify   in the terminal notifier                                     *)
(*   release, rsave   cancelled: reads the row, writes it back released    *)
(***************************************************************************)
EXTENDS Naturals, Sequences, FiniteSets

CONSTANTS
  Jobs,            \* job ids
  Runs,            \* executions; a run is also its reservation token
  Clients,         \* coroutines that call the operations of SchedulerOps
  NoRun,           \* the empty reservation token
  Unhandled,       \* jobs whose handler_key has no registered handler
  Kinds,           \* schedule kinds in use: "at", "recurring" (CRON, EVERY)
  Ops,             \* client operations in use
  Outcomes,        \* how a handler may end: "ok", "transient", "permanent"
  Faults,          \* "crash", "stop" (engine shut down), "schedule" (_next_run raises)
  MaxConcurrent,   \* SchedulerTimer._max_concurrent
  MaxCatchup,      \* SchedulerTimer._max_catchup
  MaxErrors,       \* MAX_CONSECUTIVE_ERRORS
  MaxRetries,      \* _ONE_SHOT_MAX_RETRIES
  MaxBoots         \* bound: how often the process starts

ASSUME RunsAssumption == NoRun \notin Runs

ASSUME ChoicesAssumption ==
  /\ Unhandled \subseteq Jobs
  /\ Kinds \subseteq {"at", "recurring"}
  /\ Ops \subseteq {"pause", "resume", "update", "remove", "run"}
  /\ Outcomes \subseteq {"ok", "transient", "permanent"}
  /\ Faults \subseteq {"crash", "stop", "schedule"}

ASSUME LimitsAssumption ==
  /\ MaxConcurrent \in Nat \ {0}
  /\ MaxCatchup \in Nat
  /\ MaxErrors \in Nat \ {0}
  /\ MaxRetries \in 1..MaxErrors
  /\ MaxBoots \in Nat \ {0}

VARIABLES
  rows,      \* scheduler_jobs; NoRow where there is none
  created,   \* job ids handed out by add
  overdue,   \* jobs in the order in which their next_run_at passed
  pc,        \* see above
  rjob,      \* the job of a run
  src,       \* who reserved it: "timer", "startup", "manual"
  res,       \* result of the execution
  snap,      \* the row a run has read and not yet written back
  table,     \* SchedulerTimer._running: the listed task of each job
  tpc,       \* the timer: "down", "recovered", "idle", "tick", "stopped"
  todo,      \* to_run of the current tick
  skip,      \* recovered_ids of startup_catchup
  cop,       \* the operation a client is in, "none" outside
  cjob,      \* its job
  csnap,     \* the row it has read
  boots,     \* process starts so far
  streak,    \* failures of the job recorded since its last success or resume
  won        \* jobs with a recorded success

rowVars    == <<rows, created, overdue>>
runVars    == <<pc, rjob, src, res, snap, table>>
timerVars  == <<tpc, todo, skip, boots>>
clientVars == <<cop, cjob, csnap>>
history    == <<streak, won>>
vars == <<rowVars, runVars, timerVars, clientVars, history>>

----------------------------------------------------------------------------
(* Rows *)

Statuses == {"pending", "running", "paused", "failed", "disabled"}

\* The columns that scheduling depends on.  Time is relative: next_run_at is
\* unset, still to come or passed; backoff says that backoff_until is still to
\* come, recent that last_run_at is less than MIN_REFIRE_GAP_SECONDS ago; once
\* is delete_after_run.
Row == [status : Statuses \cup {"absent"}, enabled : BOOLEAN,
        kind : {"at", "recurring"}, once : BOOLEAN,
        next : {"none", "future", "due"}, backoff : BOOLEAN,
        errs : 0..MaxErrors, recent : BOOLEAN, token : Runs \cup {NoRun}]

NoRow == [status |-> "absent", enabled |-> FALSE, kind |-> "at", once |-> FALSE,
          next |-> "none", backoff |-> FALSE, errs |-> 0, recent |-> FALSE,
          token |-> NoRun]

Exists(j) == rows[j].status # "absent"

\* Mutant: the token stays in the row.
MutKeepsToken(row) == row

\* clear_reservation
Cleared(row) == [row EXCEPT !.token = NoRun]

\* The WHERE clause of iter_due.
Due(row) == row.status = "pending" /\ row.enabled /\ row.next = "due" /\ ~row.backoff

\* Mutant: a row may be reserved whatever its status and token.
MutReservesTwice(row, requireDue) ==
  row.enabled /\ ~row.backoff /\ (requireDue => row.next = "due")

\* The WHERE clause of _reserve_job_for_run.
Reservable(row, requireDue) ==
  /\ row.enabled
  /\ row.status = "pending"
  /\ row.token = NoRun
  /\ ~row.backoff
  /\ requireDue => row.next = "due"

\* The SET clause of _reserve_job_for_run.
ReservedBy(row, r) ==
  [row EXCEPT !.status = "running", !.token = r, !.recent = TRUE]

\* A token that appears nowhere: the model's fresh uuid.
Fresh(r) ==
  /\ pc[r] = "free"
  /\ \A j \in Jobs : rows[j].token # r
  /\ \A c \in Clients : csnap[c].token # r
  /\ \A s \in Runs : snap[s].token # r

\* ORDER BY next_run_at, after j's has passed.
Overdue(j) == Append(SelectSeq(overdue, LAMBDA k : k # j), j)

----------------------------------------------------------------------------
(* _apply_result_state and its neighbours: the row after a run *)

\* FAILED for good: no next run, no back-off, no reservation.  This is
\* _mark_schedule_compute_failed and what a job gets that used up its errors.
Failed(row) ==
  [Cleared(row) EXCEPT !.status = "failed", !.next = "none", !.backoff = FALSE]

\* Mutant: the limit is off by one.
MutOneMoreRetry(row) ==
  row.errs > (IF row.kind = "at" THEN MaxRetries ELSE MaxErrors)

\* MAX_CONSECUTIVE_ERRORS or _ONE_SHOT_MAX_RETRIES reached.
Exhausted(row) ==
  row.errs >= (IF row.kind = "at" THEN MaxRetries ELSE MaxErrors)

\* A one-shot that succeeded is deleted, or disabled when it was not created as one.
OneShotDone(row) ==
  IF row.once THEN NoRow
  ELSE [Cleared(row) EXCEPT !.status = "disabled", !.enabled = FALSE]

AfterSuccess(old, bad) ==
  LET row == [old EXCEPT !.errs = 0, !.backoff = FALSE]
  IN  IF row.kind = "at" THEN OneShotDone(row)
      ELSE IF bad THEN [Failed(row) EXCEPT !.errs = @ + 1]
      ELSE [Cleared(row) EXCEPT !.status = "pending", !.next = "future"]

AfterFailure(old, bad) ==
  LET row   == [old EXCEPT !.errs = @ + 1]
      retry == [Cleared(row) EXCEPT !.status = "pending", !.backoff = TRUE]
  IN  IF row.kind = "at"
      THEN IF Exhausted(row)
           THEN [Cleared(row) EXCEPT !.status = "disabled", !.enabled = FALSE]
           ELSE retry
      ELSE IF Exhausted(row) \/ bad THEN Failed(row)
      ELSE [retry EXCEPT !.next = "future"]

\* finalize_reserved_missing_handler
AfterMissing(old) == [Failed(old) EXCEPT !.errs = @ + 1]

\* apply_reserved_result
Applied(row, result, bad) ==
  CASE result = "missing" -> AfterMissing(row)
    [] result # "missing" /\ row.status \in {"paused", "disabled"} -> Cleared(row)
    [] OTHER ->
         CASE result = "ok"        -> AfterSuccess(row, bad)
           [] result = "transient" -> AfterFailure(row, bad)
           [] OTHER ->
                [Cleared(row) EXCEPT !.errs = @ + 1, !.status = "disabled",
                                     !.enabled = FALSE, !.next = "none", !.backoff = FALSE]

\* release_reservation
Released(row) ==
  [Cleared(row) EXCEPT !.status = IF @ = "running" THEN "pending" ELSE @]
----------------------------------------------------------------------------
(* The timer *)

Up == tpc \notin {"down", "recovered"}

\* Pending the loop's own reservation: the tick waits for its row.
Picking == \E r \in Runs : pc[r] = "pick" /\ src[r] = "timer"

Listed == {j \in Jobs : table[j] # NoRun}

\* Mutant: one slot too many.
MutOneMoreSlot == IF Cardinality(Listed) > MaxConcurrent THEN 0
                  ELSE MaxConcurrent + 1 - Cardinality(Listed)

\* available_slots of _tick; zero where the code's difference is not positive.
FreeSlots == IF Cardinality(Listed) >= MaxConcurrent THEN 0
             ELSE MaxConcurrent - Cardinality(Listed)

\* Mutant: the newest due job first.
MutNewestFirst ==
  LET due == SelectSeq(overdue, LAMBDA j : Due(rows[j]) /\ ~rows[j].recent)
  IN  [i \in 1..Len(due) |-> due[Len(due) + 1 - i]]

\* The due jobs that _tick keeps after the refire gap, oldest first.
DueList == SelectSeq(overdue, LAMBDA j : Due(rows[j]) /\ ~rows[j].recent)

\* _tick up to the reservations.  A tick that finds nothing changes nothing.
TickRead ==
  /\ tpc = "idle"
  /\ \E n \in 0..FreeSlots :
       /\ n <= Len(DueList) /\ n \in {FreeSlots, Len(DueList)}
       /\ todo' = SubSeq(DueList, 1, n)
  /\ tpc' = IF todo' = <<>> THEN "idle" ELSE "tick"
  /\ UNCHANGED <<rowVars, runVars, clientVars, history, skip, boots>>

\* The reservation UPDATE by whoever: row and run.
Reserve(j, r, who) ==
  /\ Fresh(r)
  /\ rows' = [rows EXCEPT ![j] = ReservedBy(@, r)]
  /\ pc' = [pc EXCEPT ![r] = "pick"]
  /\ rjob' = [rjob EXCEPT ![r] = j]
  /\ src' = [src EXCEPT ![r] = who]

\* reserve_due_job for the next job of the tick.
TickReserve(j, r) ==
  /\ tpc = "tick" /\ ~Picking /\ todo # <<>> /\ j = Head(todo)
  /\ Reservable(rows[j], TRUE)
  /\ Reserve(j, r, "timer")
  /\ todo' = Tail(todo)
  /\ UNCHANGED <<created, overdue, res, snap, table, tpc, skip, boots, clientVars, history>>

\* ... and when the row no longer matches.
TickRejected(j) ==
  /\ tpc = "tick" /\ ~Picking /\ todo # <<>> /\ j = Head(todo)
  /\ ~Reservable(rows[j], TRUE)
  /\ todo' = Tail(todo)
  /\ UNCHANGED <<rowVars, runVars, clientVars, history, tpc, skip, boots>>

TickEnd ==
  /\ tpc = "tick" /\ ~Picking /\ todo = <<>>
  /\ tpc' = "idle"
  /\ UNCHANGED <<rowVars, runVars, clientVars, history, todo, skip, boots>>

\* run_job_now up to its reservation.  Without a row, a handler or a
\* reservation it returns and changes nothing.
RunNow(j, r) ==
  /\ "run" \in Ops /\ Up /\ j \notin Unhandled
  /\ Reservable(rows[j], FALSE)
  /\ Reserve(j, r, "manual")
  /\ UNCHANGED <<created, overdue, res, snap, table, timerVars, clientVars, history>>

----------------------------------------------------------------------------
(* A run *)

\* Where _run_single begins: a missing handler skips the execution.
Begin(r) ==
  /\ pc' = [pc EXCEPT ![r] = IF rjob[r] \in Unhandled THEN "apply" ELSE "exec"]
  /\ res' = [res EXCEPT ![r] = IF rjob[r] \in Unhandled THEN "missing" ELSE "none"]

\* The read after the UPDATE: the reservation is returned and, by the timer,
\* turned into a task listed in _running; a row deleted meanwhile is a rejection.
Picked(r) ==
  /\ pc[r] = "pick"
  /\ IF Exists(rjob[r])
     THEN /\ Begin(r)
          /\ table' = IF src[r] = "timer" THEN [table EXCEPT ![rjob[r]] = r] ELSE table
     ELSE /\ pc' = [pc EXCEPT ![r] = "free"]
          /\ UNCHANGED <<res, table>>
  /\ UNCHANGED <<rowVars, rjob, src, snap, timerVars, clientVars, history>>

\* _staggered_run wakes.
StaggerEnds(r) ==
  /\ pc[r] = "stagger"
  /\ Begin(r)
  /\ UNCHANGED <<rowVars, rjob, src, snap, table, timerVars, clientVars, history>>

\* execute_with_timeout: the handler returns, raises or runs out of time.
ExecEnds(r, o) ==
  /\ pc[r] = "exec"
  /\ res' = [res EXCEPT ![r] = o]
  /\ pc' = [pc EXCEPT ![r] = "record"]
  /\ UNCHANGED <<rowVars, rjob, src, snap, table, timerVars, clientVars, history>>

\* save_execution.  A missing handler is recorded after the row was finalized.
Record(r) ==
  /\ pc[r] = "record"
  /\ pc' = [pc EXCEPT ![r] = IF res[r] = "missing" THEN "notify" ELSE "apply"]
  /\ streak' = [streak EXCEPT ![rjob[r]] =
                  IF res[r] = "ok" THEN 0 ELSE IF @ > MaxErrors THEN @ ELSE @ + 1]
  /\ won' = IF res[r] = "ok" THEN won \cup {rjob[r]} ELSE won
  /\ UNCHANGED <<rowVars, rjob, src, res, snap, table, timerVars, clientVars>>

\* After the row has been dealt with.
Onward(r) == IF res[r] = "missing" THEN "record" ELSE "notify"

Owns(r) == Exists(rjob[r]) /\ rows[rjob[r]].token = r

\* The read of apply_reserved_result and of finalize_reserved_missing_handler.
ApplyRead(r) ==
  /\ pc[r] = "apply"
  /\ IF Owns(r)
     THEN /\ pc' = [pc EXCEPT ![r] = "save"]
          /\ snap' = [snap EXCEPT ![r] = rows[rjob[r]]]
     ELSE /\ pc' = [pc EXCEPT ![r] = Onward(r)]
          /\ UNCHANGED snap
  /\ UNCHANGED <<rowVars, rjob, src, res, table, timerVars, clientVars, history>>

\* Their save or delete.
ApplySave(r) ==
  /\ pc[r] = "save"
  /\ \E bad \in {FALSE} \cup (IF "schedule" \in Faults THEN {TRUE} ELSE {}) :
       rows' = [rows EXCEPT ![rjob[r]] = Applied(snap[r], res[r], bad)]
  /\ pc' = [pc EXCEPT ![r] = Onward(r)]
  /\ snap' = [snap EXCEPT ![r] = NoRow]
  /\ UNCHANGED <<created, overdue, rjob, src, res, table, timerVars, clientVars, history>>

\* The task or the manual call returns.  _tick drops finished tasks from
\* _running before it counts them.
Finish(r) ==
  /\ pc' = [pc EXCEPT ![r] = "free"]
  /\ res' = [res EXCEPT ![r] = "none"]
  /\ snap' = [snap EXCEPT ![r] = NoRow]
  /\ table' = [table EXCEPT ![rjob[r]] = IF @ = r THEN NoRun ELSE @]

\* notify_terminal_result
Notified(r) ==
  /\ pc[r] = "notify"
  /\ Finish(r)
  /\ UNCHANGED <<rowVars, rjob, src, timerVars, clientVars, history>>

\* release_reservation: its read, its save.
ReleaseRead(r) ==
  /\ pc[r] = "release"
  /\ IF Owns(r)
     THEN /\ pc' = [pc EXCEPT ![r] = "rsave"]
          /\ snap' = [snap EXCEPT ![r] = rows[rjob[r]]]
          /\ UNCHANGED <<res, table>>
     ELSE Finish(r)
  /\ UNCHANGED <<rowVars, rjob, src, timerVars, clientVars, history>>

ReleaseSave(r) ==
  /\ pc[r] = "rsave"
  /\ rows' = [rows EXCEPT ![rjob[r]] = Released(snap[r])]
  /\ Finish(r)
  /\ UNCHANGED <<created, overdue, rjob, src, timerVars, clientVars, history>>

----------------------------------------------------------------------------
(* Start, stop, crash *)

\* The history of the jobs of the runs R counts saved results only: what was
\* recorded but not applied is forgotten when the run is cut off.
Forget(R) ==
  LET lost == {rjob[r] : r \in {q \in R : pc[q] \in {"apply", "save"}}} IN
  /\ won' = won \ lost
  /\ streak' = [j \in Jobs |-> IF j \in lost THEN 0 ELSE streak[j]]

\* stop(): the loop is cancelled, with it a reservation it was reading back,
\* and every listed task.  A manual run is not listed and goes on.
Stop ==
  /\ "stop" \in Faults /\ tpc \in {"idle", "tick"} /\ boots < MaxBoots
  /\ tpc' = "stopped"
  /\ todo' = <<>>
  /\ pc' = [r \in Runs |->
              IF pc[r] = "pick" /\ src[r] = "timer" THEN "free"
              ELSE IF \E j \in Jobs : table[j] = r THEN "release" ELSE pc[r]]
  /\ Forget({r \in Runs : \E j \in Jobs : table[j] = r})
  /\ UNCHANGED <<rowVars, rjob, src, res, snap, table, skip, boots, clientVars>>

\* The process ends, killed or after stop().
Crash ==
  /\ \/ "crash" \in Faults /\ Up /\ boots < MaxBoots
     \/ tpc = "stopped"
  /\ tpc' = "down"
  /\ todo' = <<>>
  /\ pc' = [r \in Runs |-> "free"]
  /\ res' = [r \in Runs |-> "none"]
  /\ snap' = [r \in Runs |-> NoRow]
  /\ table' = [j \in Jobs |-> NoRun]
  /\ cop' = [c \in Clients |-> "none"]
  /\ csnap' = [c \in Clients |-> NoRow]
  /\ Forget(Runs)
  /\ UNCHANGED <<rowVars, rjob, src, skip, boots, cjob>>

\* Mutant: only the status is reset.
MutRecoversStatus(row) ==
  IF row.status = "running" THEN [row EXCEPT !.status = "pending"] ELSE row

\* Step 1 of startup_catchup.  Nothing else runs yet, so it is one step.
RecoveredRow(row) ==
  IF row.status = "running" THEN [Cleared(row) EXCEPT !.status = "pending"] ELSE Cleared(row)

Recover ==
  /\ tpc = "down"
  /\ tpc' = "recovered"
  /\ boots' = boots + 1
  /\ skip' = {j \in Jobs : rows[j].status = "running"}
  /\ rows' = [j \in Jobs |-> RecoveredRow(rows[j])]
  /\ UNCHANGED <<created, overdue, runVars, todo, clientVars, history>>

\* Steps 2 to 4: of the missed jobs the oldest max_catchup are reserved (f gives
\* each its token) and staggered; the others are fast-forwarded (late), except
\* one-shots and those for which _next_run raises.
Missed == SelectSeq(overdue, LAMBDA j : Due(rows[j]) /\ j \notin skip)

MissedAt(lo, hi) == {j \in Jobs : \E i \in lo..hi : i <= Len(Missed) /\ Missed[i] = j}

CatchUp ==
  LET taken == {j \in MissedAt(1, MaxCatchup) : Reservable(rows[j], TRUE)}
      later == {j \in MissedAt(MaxCatchup + 1, Len(Missed)) : rows[j].kind # "at"}
  IN
  /\ tpc = "recovered"
  /\ tpc' = "idle"
  /\ skip' = {}
  /\ \E f \in [taken -> {r \in Runs : Fresh(r)}], late \in SUBSET later :
       /\ \A j, k \in taken : f[j] = f[k] => j = k
       /\ "schedule" \notin Faults => late = later
       /\ rows' = [j \in Jobs |->
                     CASE j \in taken -> ReservedBy(rows[j], f[j])
                       [] j \in late \ taken -> [rows[j] EXCEPT !.next = "future"]
                       [] OTHER -> rows[j]]
       /\ table' = [j \in Jobs |-> IF j \in taken THEN f[j] ELSE NoRun]
       /\ pc' = [r \in Runs |-> IF \E j \in taken : f[j] = r THEN "stagger" ELSE pc[r]]
       /\ rjob' = [r \in Runs |-> IF \E j \in taken : f[j] = r
                                  THEN CHOOSE j \in taken : f[j] = r ELSE rjob[r]]
       /\ src' = [r \in Runs |-> IF \E j \in taken : f[j] = r THEN "startup" ELSE src[r]]
  /\ UNCHANGED <<created, overdue, res, snap, todo, boots, clientVars, history>>

----------------------------------------------------------------------------
(* Client operations *)

\* add: one insert of a new id.
Add(j) ==
  /\ Up /\ j \notin created
  /\ created' = created \cup {j}
  /\ \E k \in Kinds, on \in BOOLEAN, past \in BOOLEAN :
       /\ past => k = "at"
       /\ rows' = [rows EXCEPT ![j] =
                     [NoRow EXCEPT !.status = IF on THEN "pending" ELSE "paused",
                                   !.enabled = on, !.kind = k, !.once = k = "at",
                                   !.next = IF past THEN "due" ELSE "future"]]
       /\ overdue' = IF past THEN Overdue(j) ELSE overdue
  /\ UNCHANGED <<runVars, timerVars, clientVars, history>>

\* The get with which update, pause, resume and remove begin.
Get(c, op, j) ==
  /\ Up /\ cop[c] = "none" /\ op \in Ops \ {"run"} /\ Exists(j)
  /\ cop' = [cop EXCEPT ![c] = op]
  /\ cjob' = [cjob EXCEPT ![c] = j]
  /\ csnap' = [csnap EXCEPT ![c] = rows[j]]
  /\ UNCHANGED <<rowVars, runVars, timerVars, history>>

\* The write with which they end.
Put(c, row) ==
  /\ rows' = [rows EXCEPT ![cjob[c]] = row]
  /\ cop' = [cop EXCEPT ![c] = "none"]
  /\ csnap' = [csnap EXCEPT ![c] = NoRow]
  /\ UNCHANGED <<created, cjob, runVars, timerVars, won>>

PauseSave(c) ==
  /\ cop[c] = "pause"
  /\ Put(c, [csnap[c] EXCEPT !.status = "paused"])
  /\ UNCHANGED <<overdue, streak>>

ResumeSave(c) ==
  /\ cop[c] = "resume"
  /\ Put(c, [csnap[c] EXCEPT !.status = "pending", !.enabled = TRUE, !.backoff = FALSE,
                             !.errs = 0, !.next = IF csnap[c].kind = "at" THEN @ ELSE "future"])
  /\ streak' = [streak EXCEPT ![cjob[c]] = 0]
  /\ UNCHANGED overdue

\* update with or without a new schedule, with or without the enabled flag.
UpdateSave(c) ==
  /\ cop[c] = "update"
  /\ \E on \in BOOLEAN :
       \/ /\ Put(c, [csnap[c] EXCEPT !.enabled = on])
          /\ UNCHANGED overdue
       \/ \E k \in Kinds, past \in BOOLEAN :
            /\ past => k = "at"
            /\ Put(c, [csnap[c] EXCEPT !.enabled = on, !.kind = k,
                                       !.next = IF past THEN "due" ELSE "future"])
            /\ overdue' = IF past THEN Overdue(cjob[c]) ELSE overdue
  /\ UNCHANGED streak

RemoveDelete(c) ==
  /\ cop[c] = "remove"
  /\ Put(c, NoRow)
  /\ UNCHANGED <<overdue, streak>>

\* Time passes next_run_at, backoff_until, or the refire gap of a job.
Elapse(j) ==
  /\ \/ /\ rows[j].next = "future"
        /\ rows' = [rows EXCEPT ![j].next = "due"]
        /\ overdue' = Overdue(j)
     \/ /\ rows[j].backoff
        /\ rows' = [rows EXCEPT ![j].backoff = FALSE]
        /\ UNCHANGED overdue
     \/ /\ rows[j].recent
        /\ rows' = [rows EXCEPT ![j].recent = FALSE]
        /\ UNCHANGED overdue
  /\ UNCHANGED <<created, runVars, timerVars, clientVars, history>>

----------------------------------------------------------------------------
Init ==
  /\ rows = [j \in Jobs |-> NoRow]
  /\ created = {} /\ overdue = <<>>
  /\ pc = [r \in Runs |-> "free"]
  /\ rjob \in [Runs -> Jobs] /\ \A r, s \in Runs : rjob[r] = rjob[s]
  /\ src = [r \in Runs |-> "timer"]
  /\ res = [r \in Runs |-> "none"]
  /\ snap = [r \in Runs |-> NoRow]
  /\ table = [j \in Jobs |-> NoRun]
  /\ tpc = "down" /\ todo = <<>> /\ skip = {} /\ boots = 0
  /\ cop = [c \in Clients |-> "none"]
  /\ cjob \in [Clients -> Jobs]
  /\ csnap = [c \in Clients |-> NoRow]
  /\ streak = [j \in Jobs |-> 0] /\ won = {}

RunStep(r) ==
  \/ Picked(r) \/ StaggerEnds(r) \/ \E o \in Outcomes : ExecEnds(r, o)
  \/ Record(r) \/ ApplyRead(r) \/ ApplySave(r) \/ Notified(r)
  \/ ReleaseRead(r) \/ ReleaseSave(r)

TimerStep ==
  \/ TickRead \/ TickEnd
  \/ \E j \in Jobs : TickRejected(j) \/ \E r \in Runs : TickReserve(j, r)

ClientStep(c) ==
  \/ \E op \in Ops, j \in Jobs : Get(c, op, j)
  \/ PauseSave(c) \/ ResumeSave(c) \/ UpdateSave(c) \/ RemoveDelete(c)

Next ==
  \/ TimerStep \/ Recover \/ CatchUp \/ Stop \/ Crash
  \/ \E r \in Runs : RunStep(r)
  \/ \E j \in Jobs : Add(j) \/ Elapse(j) \/ \E r \in Runs : RunNow(j, r)
  \/ \E c \in Clients : ClientStep(c)

Spec == Init /\ [][Next]_vars

\* The loop ticks, handlers end or time out, statements return, time passes and
\* a process that died is started again.  Clients need not do anything.
Fairness ==
  /\ WF_vars(TimerStep) /\ WF_vars(Recover) /\ WF_vars(CatchUp)
  /\ \A r \in Runs : WF_vars(RunStep(r))
  /\ \A j \in Jobs : WF_vars(Elapse(j))

FairSpec == Spec /\ Fairness
----------------------------------------------------------------------------
(* Properties *)

\* Every variable keeps its type; in particular the consecutive-error counter
\* never passes MAX_CONSECUTIVE_ERRORS.
TypeOK ==
  /\ rows \in [Jobs -> Row] /\ created \subseteq Jobs
  /\ pc \in [Runs -> {"free", "pick", "stagger", "exec", "record", "apply", "save",
                      "notify", "release", "rsave"}]
  /\ rjob \in [Runs -> Jobs]
  /\ src \in [Runs -> {"timer", "startup", "manual"}]
  /\ res \in [Runs -> {"none", "missing", "ok", "transient", "permanent"}]
  /\ snap \in [Runs -> Row]
  /\ table \in [Jobs -> Runs \cup {NoRun}]
  /\ tpc \in {"down", "recovered", "idle", "tick", "stopped"}
  /\ skip \subseteq Jobs /\ boots \in 0..MaxBoots
  /\ cop \in [Clients -> {"none", "pause", "resume", "update", "remove"}]
  /\ cjob \in [Clients -> Jobs] /\ csnap \in [Clients -> Row]
  /\ streak \in [Jobs -> 0..MaxErrors + 1] /\ won \subseteq Jobs

\* The run's result still has to reach the row.
Active(r) ==
  \/ pc[r] \in {"pick", "stagger", "exec", "apply", "save", "rsave"}
  \/ pc[r] = "record" /\ res[r] # "missing"

\* Two runs of one job are never in progress together, whoever reserved them
\* and whatever happened to the row: the persisted token excludes timer ticks,
\* catch-up and run_job_now from each other.
OneRunPerJob ==
  \A r, s \in Runs : Active(r) /\ Active(s) /\ rjob[r] = rjob[s] => r = s

\* While the scheduler runs, a token in a row belongs to a run of that job
\* whose result is outstanding, and a RUNNING row has one: no reservation is
\* left behind by a run that ended.
ReservationOwned ==
  tpc \in {"idle", "tick"} =>
    \A j \in Jobs :
      /\ rows[j].status = "running" => rows[j].token # NoRun
      /\ rows[j].token # NoRun =>
           Active(rows[j].token) /\ rjob[rows[j].token] = j

\* Whatever stale rows the operations left behind, a restart heals them: when
\* catch-up is done every token belongs to a run it has just started.
RestartHeals == [][tpc = "recovered" /\ tpc' = "idle" => ReservationOwned']_vars

Busy == {r \in Runs : src[r] # "manual" /\ pc[r] \in {"stagger", "exec"}}

\* Burst protection: catch-up starts at most max_catchup runs, and while any
\* run of the tick loop executes, all scheduled runs together fit max_concurrent.
ConcurrencyBound ==
  /\ Cardinality(Busy) <= (IF MaxCatchup > MaxConcurrent THEN MaxCatchup ELSE MaxConcurrent)
  /\ (\E r \in Busy : src[r] = "timer") => Cardinality(Busy) <= MaxConcurrent

\* A job fails at most MAX_CONSECUTIVE_ERRORS times (_ONE_SHOT_MAX_RETRIES for
\* a one-shot) in a row before _apply_result_state takes it off the schedule,
\* although timer, catch-up and manual runs alternate and the process restarts.
FailuresBounded ==
  \A j \in Jobs : Exists(j) =>
    streak[j] <= (IF rows[j].kind = "at" THEN MaxRetries ELSE MaxErrors)

\* A one-shot whose success was applied (_apply_result_state) never runs again:
\* not by the timer, a manual call or the catch-up after a restart.
OneShotOnce ==
  \A j \in Jobs : j \in won /\ rows[j].kind = "at" /\ Exists(j) =>
    /\ rows[j].status # "pending"
    /\ \A r \in Runs : rjob[r] = j => pc[r] \notin {"pick", "stagger", "exec"}

\* A job that is due is run, although the tick loop has few slots and serves
\* the oldest first: it is reserved, or a client takes it off the schedule.  And
\* a reservation is always given up, also when the process dies in between.
NoJobStuck ==
  \A j \in Jobs :
    /\ Due(rows[j]) ~> ~Due(rows[j])
    /\ \A r \in Runs : (rows[j].token = r) ~> (rows[j].token # r)

\* A job that was deleted never comes back: ids are not used twice.
DeletedForGood ==
  [][\A j \in created : ~Exists(j) => rows'[j].status = "absent"]_vars
============================================================================
