-------------------------- MODULE CronLimitsProofs --------------------------
(***************************************************************************)
(* Theorems about CronScheduler: the restart, the error limit, one-shot    *)
(* jobs and the slots of the tick, for any jobs, runs, clients and limits. *)
(***************************************************************************)
EXTENDS CronSchedulerProofs, FiniteSetTheorems, SequenceTheorems

----------------------------------------------------------------------------
(* The inductive invariant: what has been recorded of a job and what its    *)
(* row says.                                                                *)

\* How many failures in a row a job may have.
Limit(row) == IF row.kind = "at" THEN MaxRetries ELSE MaxErrors

\* A row is RUNNING exactly while it is reserved, and a row that may run again
\* has an error to spare.
BudgetInv ==
  \A j \in Jobs :
    /\ rows[j].token # NoRun <=> rows[j].status = "running"
    /\ rows[j].errs <= Limit(rows[j])
    /\ rows[j].status \in {"pending", "running"} => rows[j].errs < Limit(rows[j])

\* The run's result is recorded and not yet in the row; it is a failure.
Settling(r) == pc[r] \in {"apply", "save"} /\ res[r] # "missing"
Charged(r) == Settling(r) /\ res[r] # "ok"

\* The row counts every recorded failure, but for one that is about to be applied.
StreakInv ==
  \A j \in Jobs :
    /\ Exists(j) => streak[j] <= rows[j].errs + 1
    /\ Exists(j) /\ (\A r \in Runs : rjob[r] = j => ~Charged(r)) => streak[j] <= rows[j].errs
    /\ j \notin created => streak[j] = 0 /\ j \notin won

\* The same of the row that a run has read and is about to write, which may
\* have been deleted in the meantime.
CopyInv ==
  \A r \in Runs : pc[r] \in {"save", "rsave"} =>
    /\ snap[r].status = "running"
    /\ snap[r].errs < Limit(snap[r])
    /\ streak[rjob[r]] <= snap[r].errs + 1
    /\ ~Charged(r) => streak[rjob[r]] <= snap[r].errs
    /\ snap[r].kind = "at" /\ rjob[r] \in won => pc[r] = "save" /\ res[r] = "ok"

\* A success that is about to be applied has ended the streak.
SuccessInv ==
  \A r \in Runs : Settling(r) /\ res[r] = "ok" => streak[rjob[r]] = 0

\* A run without a handler that has finalized its row and not yet recorded it:
\* the row already counts the failure.
Finalized(r) == pc[r] = "record" /\ res[r] = "missing"
MissingInv ==
  \A r \in Runs : Finalized(r) =>
    /\ rjob[r] \in created
    /\ \A s \in Runs : (Active(s) \/ Finalized(s)) /\ rjob[s] = rjob[r] => s = r
    /\ Exists(rjob[r]) =>
         /\ rows[rjob[r]].status = "failed"
         /\ streak[rjob[r]] < rows[rjob[r]].errs

\* A one-shot that succeeded is out of service, or its run is about to see to it.
WonInv ==
  \A j \in won : rows[j].kind = "at" /\ Exists(j) =>
    \/ rows[j].status = "disabled"
    \/ /\ rows[j].status = "running"
       /\ rjob[rows[j].token] = j
       /\ pc[rows[j].token] \in {"apply", "save"}
       /\ res[rows[j].token] = "ok"

LimitInv == BudgetInv /\ StreakInv /\ CopyInv /\ SuccessInv /\ MissingInv /\ WonInv

----------------------------------------------------------------------------
(* What the steps of the scheduler do to the rows *)

\* What scheduling decisions are based on, but for the passing of time.
SameRow(new, old) ==
  new.token = old.token /\ new.status = old.status /\ new.errs = old.errs /\ new.kind = old.kind

\* A reservation changes neither the kind of the job nor its errors.
LEMMA ReservedSame ==
  ASSUME NEW row, row \in Row, NEW r \in Runs
  PROVE  /\ ReservedBy(row, r).token = r /\ ReservedBy(row, r).status = "running"
         /\ ReservedBy(row, r).errs = row.errs /\ ReservedBy(row, r).kind = row.kind
  BY DEF Row, ReservedBy

\* When a timer, a client or a catch-up may reserve a job, it is PENDING.
LEMMA ReservablePending ==
  ASSUME NEW row, NEW due, Reservable(row, due)
  PROVE  row.status = "pending" /\ row.token = NoRun
  BY DEF Reservable

\* Catch-up reserves the rows of some PENDING jobs, each for a run of its own,
\* and leaves the others as they are.
LEMMA CatchUpStep ==
  ASSUME RestInv, RowsInv, CatchUp
  PROVE  \E T \in SUBSET Jobs : \E f \in [T -> Runs] :
           /\ T \subseteq MissedAt(1, MaxCatchup)
           /\ \A j \in T : rows[j].status = "pending" /\ rows[j].token = NoRun
           /\ \A j \in T : /\ rows'[j].token = f[j] /\ rows'[j].status = "running"
                           /\ rows'[j].errs = rows[j].errs /\ rows'[j].kind = rows[j].kind
           /\ \A j \in Jobs \ T : SameRow(rows'[j], rows[j])
           /\ \A j \in T : pc'[f[j]] = "stagger" /\ rjob'[f[j]] = j /\ src'[f[j]] = "startup"
           /\ \A r \in Runs : (\A j \in T : f[j] # r) =>
                pc'[r] = pc[r] /\ rjob'[r] = rjob[r] /\ src'[r] = src[r]
           /\ \A j \in Jobs : table'[j] = IF j \in T THEN f[j] ELSE NoRun
  <1> DEFINE taken == {j \in MissedAt(1, MaxCatchup) : Reservable(rows[j], TRUE)}
             later == {j \in MissedAt(MaxCatchup + 1, Len(Missed)) : rows[j].kind # "at"}
  <1>0. /\ taken \subseteq Jobs /\ taken \subseteq MissedAt(1, MaxCatchup)
        /\ \A j \in taken : rows[j].status = "pending" /\ rows[j].token = NoRun
    BY DEF MissedAt, Reservable
  <1>1. PICK f \in [taken -> {r \in Runs : Fresh(r)}], late \in SUBSET later :
          /\ \A j, k \in taken : f[j] = f[k] => j = k
          /\ "schedule" \notin Faults => late = later
          /\ rows' = [j \in Jobs |->
                        CASE j \in taken -> ReservedBy(rows[j], f[j])
                          [] j \in late \ taken -> [rows[j] EXCEPT !.next = "future"]
                          [] OTHER -> rows[j]]
          /\ table' = [j \in Jobs |-> IF j \in taken THEN f[j] ELSE NoRun]
          /\ pc' = [r \in Runs |-> IF \E j \in taken : f[j] = r THEN "stagger" ELSE pc[r]]
          /\ rjob' = [r \in Runs |-> IF \E j \in taken : f[j] = r
                                     THEN CHOOSE j \in taken : f[j] = r ELSE rjob[r]]
          /\ src' = [r \in Runs |-> IF \E j \in taken : f[j] = r THEN "startup" ELSE src[r]]
    BY DEF CatchUp
  <1>2. f \in [taken -> Runs]
    BY <1>1
  <1> HIDE DEF taken, later
  <1>3. ASSUME NEW j \in taken
        PROVE  /\ rows'[j].token = f[j] /\ rows'[j].status = "running"
               /\ rows'[j].errs = rows[j].errs /\ rows'[j].kind = rows[j].kind
    <2>1. j \in Jobs /\ f[j] \in Runs /\ rows[j] \in Row
      BY <1>0, <1>2 DEF RowsInv
    <2>2. rows'[j] = ReservedBy(rows[j], f[j])
      BY <1>1, <2>1
    <2> QED BY <2>1, <2>2, ReservedSame
  <1>4. ASSUME NEW j \in Jobs \ taken
        PROVE  SameRow(rows'[j], rows[j])
    <2>1. CASE j \in late \ taken
      <3>1. rows'[j] = [rows[j] EXCEPT !.next = "future"] /\ rows[j] \in Row
        BY <1>1, <2>1 DEF RowsInv
      <3> QED BY <3>1 DEF SameRow, Row
    <2>2. CASE ~(j \in late \ taken)
      BY <1>1, <2>2 DEF SameRow
    <2> QED BY <2>1, <2>2
  <1>5. ASSUME NEW j \in taken
        PROVE  pc'[f[j]] = "stagger" /\ rjob'[f[j]] = j /\ src'[f[j]] = "startup"
    BY <1>1, <1>2
  <1>6. ASSUME NEW r \in Runs, \A j \in taken : f[j] # r
        PROVE  pc'[r] = pc[r] /\ rjob'[r] = rjob[r] /\ src'[r] = src[r]
    BY <1>1, <1>6
  <1>7. \A j \in Jobs : table'[j] = IF j \in taken THEN f[j] ELSE NoRun
    BY <1>1
  <1> QED BY <1>0, <1>2, <1>3, <1>4, <1>5, <1>6, <1>7

----------------------------------------------------------------------------
(* A restart heals the reservations, whatever the clients do *)

\* What DownInv says holds for every set of client operations.
LEMMA DownStep ==
  ASSUME RestInv, RowsInv, DownInv, [Next]_vars
  PROVE  DownInv'
  <1>1. CASE TimerStep
    BY <1>1 DEF TimerStep, TickRead, TickEnd, TickRejected, TickReserve, DownInv, Up
  <1>2. CASE Recover
    <2>1. tpc = "down" /\ tpc' = "recovered" /\ UNCHANGED <<pc, cop>>
          /\ \A j \in Jobs : rows'[j] = RecoveredRow(rows[j]) /\ Sound(rows[j])
      BY <1>2 DEF Recover, runVars, clientVars, RowsInv
    <2> QED BY <2>1, RecoveredSound DEF DownInv, Up
  <1>3. CASE CatchUp
    BY <1>3 DEF CatchUp, DownInv, Up
  <1>4. CASE Stop
    BY <1>4 DEF Stop, DownInv, Up
  <1>5. CASE Crash
    BY <1>5 DEF Crash, DownInv, Up
  <1>6. ASSUME NEW r \in Runs, RunStep(r) PROVE DownInv'
    <2>1. Up /\ tpc' = tpc
      BY <1>6 DEF RunStep, Picked, StaggerEnds, ExecEnds, Record, ApplyRead, ApplySave, Notified,
                  ReleaseRead, ReleaseSave, timerVars, DownInv
    <2> QED BY <2>1 DEF DownInv, Up
  <1>7. ASSUME NEW j \in Jobs, Add(j) \/ \E r \in Runs : RunNow(j, r) PROVE DownInv'
    BY <1>7 DEF Add, RunNow, timerVars, DownInv, Up
  <1>8. ASSUME NEW j \in Jobs, Elapse(j) PROVE DownInv'
    <2>1. PICK row : /\ rows' = [rows EXCEPT ![j] = row]
                     /\ row.token = rows[j].token /\ row.status = rows[j].status
      BY <1>8, ElapsedSound DEF Elapse, RowsInv
    <2>2. UNCHANGED <<pc, tpc, cop>>
      BY <1>8 DEF Elapse, runVars, timerVars, clientVars
    <2> QED BY <2>1, <2>2 DEF DownInv, Up, RowsInv
  <1>9. ASSUME NEW c \in Clients, ClientStep(c) PROVE DownInv'
    <2>1. tpc' = tpc /\ Up
      BY <1>9, ChoicesAssumption
      DEF ClientStep, Get, PauseSave, ResumeSave, UpdateSave, RemoveDelete, Put, timerVars, DownInv
    <2> QED BY <2>1 DEF DownInv, Up
  <1>10. CASE UNCHANGED vars
    BY <1>10 DEF vars, rowVars, runVars, timerVars, clientVars, DownInv, Up
  <1> QED BY <1>1, <1>2, <1>3, <1>4, <1>5, <1>6, <1>7, <1>8, <1>9, <1>10 DEF Next

\* When catch-up is done every token belongs to a run it has just started.
LEMMA HealedStep ==
  ASSUME RestInv, RowsInv, DownInv, [Next]_vars, tpc = "recovered", tpc' = "idle"
  PROVE  ReservationOwned'
  <1>1. CatchUp
    <2>1. tpc' # tpc
      OBVIOUS
    <2> QED
      BY <2>1 DEF Next, vars, TimerStep, TickRead, TickEnd, TickRejected, TickReserve, Recover, Stop,
                  Crash, RunStep, Picked, StaggerEnds, ExecEnds, Record, ApplyRead, ApplySave,
                  Notified, ReleaseRead, ReleaseSave, Add, Elapse, RunNow, ClientStep, Get,
                  PauseSave, ResumeSave, UpdateSave, RemoveDelete, Put, timerVars
  <1>2. \A j \in Jobs : rows[j].token = NoRun /\ rows[j].status # "running"
    BY DEF DownInv
  <1>t. PICK T \in SUBSET Jobs : \E f \in [T -> Runs] :
          /\ \A j \in T : rows'[j].token = f[j] /\ rows'[j].status = "running"
          /\ \A j \in Jobs \ T : SameRow(rows'[j], rows[j])
          /\ \A j \in T : pc'[f[j]] = "stagger" /\ rjob'[f[j]] = j
    BY <1>1, CatchUpStep
  <1>3. PICK f \in [T -> Runs] :
          /\ \A j \in T : rows'[j].token = f[j] /\ rows'[j].status = "running"
          /\ \A j \in Jobs \ T : SameRow(rows'[j], rows[j])
          /\ \A j \in T : pc'[f[j]] = "stagger" /\ rjob'[f[j]] = j
    BY <1>t
  <1> SUFFICES ASSUME NEW j \in Jobs
               PROVE  /\ rows'[j].status = "running" => rows'[j].token # NoRun
                      /\ rows'[j].token # NoRun =>
                           Active(rows[j].token)' /\ rjob'[rows'[j].token] = j
    BY DEF ReservationOwned
  <1>4. CASE j \in T
    <2>1. f[j] \in Runs
      BY <1>4
    <2> QED BY <1>3, <1>4, <2>1, RunsAssumption DEF Active
  <1>5. CASE j \notin T
    BY <1>2, <1>3, <1>5 DEF SameRow
  <1> QED BY <1>4, <1>5

\* Whatever stale rows pause, resume, update and remove left behind, and
\* however the process ended, a restart heals them: when startup_catchup is
\* done every token in a row belongs to a run it has just started.
THEOREM RestartsHeal == Spec => RestartHeals
  <1>1. Init => DownInv
    BY DEF Init, DownInv
  <1>2. RestInv /\ RowsInv /\ DownInv /\ [Next]_vars => DownInv'
    BY DownStep
  <1>3. RestInv /\ RowsInv /\ DownInv /\ [Next]_vars =>
          [tpc = "recovered" /\ tpc' = "idle" => ReservationOwned']_vars
    BY HealedStep
  <1> QED BY <1>1, <1>2, <1>3, TypeInvariance, PTL DEF Spec, RestartHeals

----------------------------------------------------------------------------
(* The error limit and one-shot jobs *)

\* What applying a result makes of a reserved row with an error to spare.
LEMMA AppliedLimit ==
  ASSUME NEW row, row \in Row, row.status = "running", row.errs < Limit(row),
         NEW o \in {"none", "missing", "ok", "transient", "permanent"}, NEW bad \in BOOLEAN
  PROVE  LET new == Applied(row, o, bad) IN
         /\ new.errs <= Limit(new)
         /\ new.status = "pending" => new.errs < Limit(new)
         /\ o = "missing" => new.status = "failed" /\ new.errs = row.errs + 1
         /\ o = "ok" /\ new.kind = "at" => new.status \in {"absent", "disabled"}
         /\ o # "ok" => new.errs = row.errs + 1 /\ new.kind = row.kind
         /\ 0 <= new.errs
  <1> DEFINE Goal(x) ==
               /\ x.errs <= Limit(x)
               /\ x.status = "pending" => x.errs < Limit(x)
               /\ o = "missing" => x.status = "failed" /\ x.errs = row.errs + 1
               /\ o = "ok" /\ x.kind = "at" => x.status \in {"absent", "disabled"}
               /\ o # "ok" => x.errs = row.errs + 1 /\ x.kind = row.kind
               /\ 0 <= x.errs
             e == [row EXCEPT !.errs = @ + 1]
  <1>0. /\ MaxErrors \in Nat /\ MaxRetries \in Nat /\ 0 < MaxErrors /\ 0 < MaxRetries
        /\ row.errs \in Nat /\ row.errs + 1 <= Limit(row)
    BY LimitsAssumption DEF Limit, Row
  <1> USE <1>0, RunsAssumption DEF Row, Statuses, Limit
  <1>1. CASE o = "missing"
    <2>1. Goal(AfterMissing(row))
      BY <1>1 DEF AfterMissing, Failed, Cleared
    <2> QED BY <1>1, <2>1 DEF Applied
  <1>2. CASE o = "ok"
    <2>1. CASE row.kind = "at"
      <3>1. Goal(AfterSuccess(row, bad))
        BY <1>2, <2>1 DEF AfterSuccess, OneShotDone, Cleared, NoRow
      <3> QED BY <1>2, <3>1 DEF Applied
    <2>2. CASE row.kind # "at"
      <3>1. Goal(AfterSuccess(row, bad))
        BY <1>2, <2>2 DEF AfterSuccess, Failed, Cleared
      <3> QED BY <1>2, <3>1 DEF Applied
    <2> QED BY <2>1, <2>2
  <1>3. CASE o = "transient"
    <2>1. /\ e \in [status : Statuses \cup {"absent"}, enabled : BOOLEAN,
                    kind : {"at", "recurring"}, once : BOOLEAN,
                    next : {"none", "future", "due"}, backoff : BOOLEAN,
                    errs : Nat, recent : BOOLEAN, token : Runs \cup {NoRun}]
          /\ e.errs = row.errs + 1 /\ e.kind = row.kind
      OBVIOUS
    <2> DEFINE retry == [Cleared(e) EXCEPT !.status = "pending", !.backoff = TRUE]
    <2>2. Goal([Cleared(e) EXCEPT !.status = "disabled", !.enabled = FALSE]) /\ Goal(Failed(e))
      BY <1>3, <2>1 DEF Failed, Cleared
    <2>3. ~Exhausted(e) => Goal(retry) /\ Goal([retry EXCEPT !.next = "future"])
      BY <1>3, <2>1 DEF Cleared, Exhausted
    <2>4. Goal(AfterFailure(row, bad))
      <3> HIDE DEF Goal
      <3> QED BY <2>2, <2>3 DEF AfterFailure
    <2> QED BY <1>3, <2>4 DEF Applied
  <1>4. CASE o \in {"none", "permanent"}
    <2>1. Goal([Cleared(row) EXCEPT !.errs = @ + 1, !.status = "disabled",
                                    !.enabled = FALSE, !.next = "none", !.backoff = FALSE])
      BY <1>4 DEF Cleared
    <2> QED BY <1>4, <2>1 DEF Applied
  <1> QED BY <1>1, <1>2, <1>3, <1>4

\* An active run of a job is the only one, and the job's row carries its token
\* and is RUNNING; so nothing else is outstanding for the job.
LEMMA OnlyRun ==
  ASSUME RestInv, RowsInv, LockInv, LimitInv, NEW r \in Runs, Active(r)
  PROVE  /\ rjob[r] \in created /\ rjob[r] \in Jobs
         /\ \A s \in Runs \ {r} : rjob[s] = rjob[r] =>
              ~Active(s) /\ ~Finalized(s) /\ ~Charged(s) /\ pc[s] \notin {"apply", "save", "rsave"}
         /\ ~Finalized(r)
         /\ Exists(rjob[r]) => rows[rjob[r]].token = r /\ rows[rjob[r]].status = "running"
  <1>1. \A s \in Runs : pc[s] \in {"apply", "save", "rsave"} => Active(s)
    BY DEF Active
  <1>2. \A s \in Runs : Charged(s) => Active(s)
    BY DEF Active, Charged, Settling
  <1>3. ~Finalized(r)
    BY DEF Active, Finalized
  <1>4. \A s \in Runs \ {r} : rjob[s] = rjob[r] => ~Finalized(s)
    BY DEF LimitInv, MissingInv
  <1> QED
    BY <1>1, <1>2, <1>3, <1>4, RunsAssumption
    DEF LockInv, OneRunPerJob, OwnInv, CreatedInv, LimitInv, BudgetInv, RestInv

\* Nothing of a run is outstanding but, perhaps, its execution.
Plain(r) == ~Settling(r) /\ pc[r] \notin {"save", "rsave"} /\ ~Finalized(r)

\* The run is where it was.
SameRun(r) ==
  pc'[r] = pc[r] /\ res'[r] = res[r] /\ rjob'[r] = rjob[r] /\ snap'[r] = snap[r]

\* The history of the job was cut off (Forget).
Forgotten(j) == streak'[j] = 0 /\ j \notin won'

\* How a row may change without any result being recorded or applied: not at
\* all, reserved, deleted, added, or recovered.
RowMoves(j) ==
  \/ SameRow(rows'[j], rows[j])
  \/ /\ rows[j].status = "pending"
     /\ rows'[j].token # NoRun /\ rows'[j].status = "running"
     /\ rows'[j].errs = rows[j].errs /\ rows'[j].kind = rows[j].kind
  \/ rows'[j] = NoRow
  \/ /\ j \notin created
     /\ rows'[j].token = NoRun /\ rows'[j].status \in {"pending", "paused"} /\ rows'[j].errs = 0
  \/ /\ \A r \in Runs : pc[r] = "free"
     /\ rows[j].status = "running" /\ rows'[j].status = "pending" /\ rows'[j].token = NoRun
     /\ rows'[j].errs = rows[j].errs /\ rows'[j].kind = rows[j].kind

\* A step that records and applies nothing keeps the invariant: what is
\* outstanding stays outstanding, or its history is cut off.
LEMMA NothingApplied ==
  ASSUME RestInv, RowsInv, LockInv, LimitInv, RestInv',
         created \subseteq created',
         \A j \in Jobs : RowMoves(j),
         \A j \in Jobs : Forgotten(j) \/ (streak'[j] = streak[j] /\ (j \in won' <=> j \in won)),
         \A r \in Runs :
           \/ SameRun(r)
           \/ /\ Plain(r)'
              /\ Settling(r) => rjob'[r] = rjob[r] /\ Forgotten(rjob[r]),
         \A r \in Runs : Active(r)' =>
           \/ Active(r) /\ rjob'[r] = rjob[r]
           \/ Exists(rjob'[r]) /\ rows[rjob'[r]].status # "failed"
  PROVE  LimitInv'
  <1>0. /\ streak \in [Jobs -> Nat] /\ streak' \in [Jobs -> Nat]
        /\ \A j \in Jobs : rows[j].errs \in Nat
        /\ \A j \in Jobs : streak'[j] <= streak[j] /\ (j \in won' => j \in won)
        /\ NoRow.errs = 0 /\ NoRow.token = NoRun /\ NoRow.status = "absent" /\ NoRow.kind = "at"
        /\ MaxErrors \in Nat /\ MaxRetries \in Nat /\ 0 < MaxErrors /\ 0 < MaxRetries
    BY LimitsAssumption DEF RestInv, RowsInv, Row, NoRow, Forgotten
  <1>1. BudgetInv'
    <2> SUFFICES ASSUME NEW j \in Jobs
                 PROVE  /\ rows'[j].token # NoRun <=> rows'[j].status = "running"
                        /\ rows'[j].errs <= Limit(rows'[j])
                        /\ rows'[j].status \in {"pending", "running"} =>
                             rows'[j].errs < Limit(rows'[j])
      BY DEF BudgetInv
    <2> QED BY <1>0 DEF LimitInv, BudgetInv, RowMoves, SameRow, Limit
  <1>2. \A r \in Runs : ~Plain(r)' => SameRun(r)
    OBVIOUS
  <1>3. \A r \in Runs : /\ Charged(r)' => Charged(r) /\ rjob'[r] = rjob[r]
                        /\ Finalized(r)' => Finalized(r) /\ rjob'[r] = rjob[r]
                        /\ Charged(r) => \/ Charged(r)' /\ rjob'[r] = rjob[r]
                                         \/ rjob'[r] = rjob[r] /\ Forgotten(rjob[r])
    BY DEF Plain, Charged, Settling, Finalized, SameRun
  <1>4. StreakInv'
    <2> SUFFICES ASSUME NEW j \in Jobs
                 PROVE  /\ Exists(j)' => streak'[j] <= rows'[j].errs + 1
                        /\ Exists(j)' /\ (\A r \in Runs : rjob'[r] = j => ~Charged(r)') =>
                             streak'[j] <= rows'[j].errs
                        /\ j \notin created' => streak'[j] = 0 /\ j \notin won'
      BY DEF StreakInv
    <2>1. j \notin created => streak'[j] = 0 /\ j \notin won'
      BY <1>0 DEF LimitInv, StreakInv, Forgotten
    <2>2. ASSUME Exists(j)', j \in created
          PROVE  Exists(j) /\ rows'[j].errs = rows[j].errs
      BY <1>0, <2>2 DEF RowMoves, SameRow, Exists
    <2>3. ASSUME Exists(j)', j \notin created
          PROVE  rows'[j].errs \in Nat
      BY <1>0, <2>3 DEF RowMoves, SameRow, Exists
    <2>4. CASE Forgotten(j)
      BY <1>0, <2>1, <2>2, <2>3, <2>4 DEF Forgotten
    <2>5. CASE ~Forgotten(j)
      <3>1. (\A r \in Runs : rjob'[r] = j => ~Charged(r)') => \A r \in Runs : rjob[r] = j => ~Charged(r)
        BY <1>3, <2>5
      <3> QED BY <1>0, <2>1, <2>2, <2>3, <2>5, <3>1 DEF LimitInv, StreakInv
    <2> QED BY <2>4, <2>5
  <1>5. CopyInv'
    <2> SUFFICES ASSUME NEW r \in Runs, pc'[r] \in {"save", "rsave"}
                 PROVE  /\ snap'[r].status = "running"
                        /\ snap'[r].errs < Limit(snap'[r])
                        /\ streak'[rjob'[r]] <= snap'[r].errs + 1
                        /\ ~Charged(r)' => streak'[rjob'[r]] <= snap'[r].errs
                        /\ snap'[r].kind = "at" /\ rjob'[r] \in won' => pc'[r] = "save" /\ res'[r] = "ok"
      BY DEF CopyInv
    <2>1. SameRun(r)
      BY <1>2 DEF Plain
    <2>2. Charged(r)' <=> Charged(r)
      BY <2>1 DEF SameRun, Charged, Settling
    <2>3. snap[r].errs \in Nat /\ rjob[r] \in Jobs
      BY DEF RowsInv, Row, RestInv
    <2> QED BY <1>0, <2>1, <2>2, <2>3 DEF LimitInv, CopyInv, SameRun
  <1>6. SuccessInv'
    <2> SUFFICES ASSUME NEW r \in Runs, Settling(r)', res'[r] = "ok"
                 PROVE  streak'[rjob'[r]] = 0
      BY DEF SuccessInv
    <2>1. SameRun(r)
      BY <1>2 DEF Plain
    <2>2. Settling(r) /\ rjob[r] \in Jobs
      BY <2>1 DEF SameRun, Settling, RestInv
    <2> QED BY <1>0, <2>1, <2>2 DEF LimitInv, SuccessInv, SameRun
  <1>7. MissingInv'
    <2> SUFFICES ASSUME NEW r \in Runs, Finalized(r)'
                 PROVE  /\ rjob'[r] \in created'
                        /\ \A s \in Runs : (Active(s)' \/ Finalized(s)') /\ rjob'[s] = rjob'[r] => s = r
                        /\ Exists(rjob[r])' =>
                             /\ rows'[rjob'[r]].status = "failed"
                             /\ streak'[rjob'[r]] < rows'[rjob'[r]].errs
      BY DEF MissingInv
    <2>1. Finalized(r) /\ rjob'[r] = rjob[r] /\ rjob[r] \in Jobs /\ rjob[r] \in created
      BY <1>3 DEF RestInv, LimitInv, MissingInv
    <2>2. Exists(rjob[r]) => rows[rjob[r]].status = "failed" /\ streak[rjob[r]] < rows[rjob[r]].errs
      BY <2>1 DEF LimitInv, MissingInv
    <2>3. ASSUME NEW s \in Runs, Active(s)' \/ Finalized(s)', rjob'[s] = rjob'[r]
          PROVE  s = r
      <3>1. (Active(s) \/ Finalized(s)) /\ rjob[s] = rjob[r]
        BY <1>3, <2>1, <2>2, <2>3
      <3> QED BY <2>1, <3>1 DEF LimitInv, MissingInv
    <2>4. ASSUME Exists(rjob[r])'
          PROVE  SameRow(rows'[rjob[r]], rows[rjob[r]]) /\ Exists(rjob[r])
      BY <1>0, <2>1, <2>2, <2>4 DEF RowMoves, Exists, SameRow
    <2> QED BY <1>0, <2>1, <2>2, <2>3, <2>4 DEF SameRow
  <1>8. WonInv'
    <2> SUFFICES ASSUME NEW j \in won', rows'[j].kind = "at", Exists(j)'
                 PROVE  \/ rows'[j].status = "disabled"
                        \/ /\ rows'[j].status = "running"
                           /\ rjob'[rows'[j].token] = j
                           /\ pc'[rows'[j].token] \in {"apply", "save"}
                           /\ res'[rows'[j].token] = "ok"
      BY DEF WonInv
    <2>1. j \in Jobs /\ j \in won /\ j \in created /\ ~Forgotten(j)
      BY <1>0 DEF RestInv, LimitInv, StreakInv, Forgotten
    <2>2. rows[j].kind = "at" /\ Exists(j)
      BY <1>0, <2>1 DEF RowMoves, SameRow, Exists
    <2>3. \/ rows[j].status = "disabled"
          \/ /\ rows[j].status = "running"
             /\ rjob[rows[j].token] = j
             /\ pc[rows[j].token] \in {"apply", "save"}
             /\ res[rows[j].token] = "ok"
      BY <2>1, <2>2 DEF LimitInv, WonInv
    <2>4. CASE rows[j].status = "disabled"
      BY <1>0, <2>1, <2>4 DEF RowMoves, SameRow, Exists
    <2>5. CASE rows[j].status = "running" /\ rows[j].status # "disabled"
      <3> DEFINE t == rows[j].token
      <3>1. t \in Runs
        BY <2>1, <2>5 DEF LimitInv, BudgetInv, RowsInv, Row
      <3>2. Settling(t) /\ rjob[t] = j /\ pc[t] # "free"
        BY <2>3, <2>5 DEF Settling
      <3>3. SameRun(t)
        BY <2>1, <3>1, <3>2
      <3>4. SameRow(rows'[j], rows[j])
        BY <1>0, <2>1, <2>5, <3>1, <3>2 DEF RowMoves, Exists
      <3> QED BY <2>3, <2>5, <3>3, <3>4 DEF SameRun, SameRow
    <2> QED BY <2>3, <2>4, <2>5
  <1> QED BY <1>1, <1>4, <1>5, <1>6, <1>7, <1>8 DEF LimitInv

\* A reservation by the timer or by run_job_now.
LEMMA ReserveApplies ==
  ASSUME RestInv, RowsInv, LockInv, LimitInv, RestInv',
         NEW j \in Jobs, NEW r \in Runs, NEW who, NEW due, Reserve(j, r, who), Reservable(rows[j], due),
         UNCHANGED <<created, res, snap, streak, won>>
  PROVE  LimitInv'
  <1>1. rows[j].status = "pending" /\ rows[j] \in Row
    BY ReservablePending DEF RowsInv
  <1>2. /\ rows'[j] = ReservedBy(rows[j], r)
        /\ \A k \in Jobs \ {j} : rows'[k] = rows[k]
    BY DEF Reserve, RowsInv
  <1>3. /\ rows'[j].token = r /\ rows'[j].status = "running"
        /\ rows'[j].errs = rows[j].errs /\ rows'[j].kind = rows[j].kind
    BY <1>1, <1>2, ReservedSame
  <1>4. \A k \in Jobs : RowMoves(k)
    BY <1>1, <1>2, <1>3, RunsAssumption DEF RowMoves, SameRow
  <1>5. /\ pc[r] = "free" /\ pc'[r] = "pick" /\ rjob'[r] = j
        /\ \A s \in Runs \ {r} : SameRun(s)
    BY DEF Reserve, Fresh, SameRun, RestInv
  <1>6. ~Settling(r) /\ Plain(r)'
    BY <1>5 DEF Plain, Settling, Finalized
  <1>7. \A s \in Runs \ {r} : Active(s)' => Active(s) /\ rjob'[s] = rjob[s]
    BY <1>5 DEF SameRun, Active
  <1>8. \A s \in Runs : SameRun(s) \/ (Plain(s)' /\ ~Settling(s))
    BY <1>5, <1>6
  <1>9. Exists(j) /\ rows[j].status # "failed"
    BY <1>1 DEF Exists
  <1>10. ASSUME NEW s \in Runs, Active(s)'
         PROVE  \/ Active(s) /\ rjob'[s] = rjob[s]
                \/ Exists(rjob'[s]) /\ rows[rjob'[s]].status # "failed"
    <2>1. CASE s = r
      <3>1. rjob'[s] = j
        BY <1>5, <2>1
      <3> QED BY <1>9, <3>1
    <2>2. CASE s # r
      BY <1>7, <1>10, <2>2
    <2> QED BY <2>1, <2>2
  <1> QED BY <1>4, <1>8, <1>10, NothingApplied

\* A run that is executed or returns, and applies nothing.
LEMMA RunPasses ==
  ASSUME RestInv, RowsInv, LockInv, LimitInv, RestInv', NEW r \in Runs,
         UNCHANGED <<rows, created, rjob, streak, won>>,
         \A s \in Runs \ {r} : SameRun(s),
         Plain(r), Plain(r)', Active(r)' => Active(r)
  PROVE  LimitInv'
  <1>1. \A j \in Jobs : RowMoves(j)
    BY DEF RowMoves, SameRow
  <1>2. \A s \in Runs \ {r} : Active(s)' => Active(s)
    BY DEF SameRun, Active
  <1> QED BY <1>1, <1>2, NothingApplied DEF Plain

\* A client or the passing of time changes a row.
LEMMA RowPasses ==
  ASSUME RestInv, RowsInv, LockInv, LimitInv, RestInv',
         \A j \in Jobs : RowMoves(j), created \subseteq created',
         UNCHANGED <<pc, res, rjob, snap, streak, won>>
  PROVE  LimitInv'
  <1>1. \A s \in Runs : SameRun(s) /\ (Active(s)' => Active(s))
    BY DEF SameRun, Active
  <1> QED BY <1>1, NothingApplied DEF SameRun

\* save_execution counts the failure, or ends the streak.
LEMMA RecordStep ==
  ASSUME RestInv, RowsInv, LockInv, LimitInv, RestInv', NEW r \in Runs, Record(r)
  PROVE  LimitInv'
  <1> DEFINE j == rjob[r]
  <1>0. /\ j \in Jobs /\ streak[j] \in Nat /\ streak'[j] \in Nat
        /\ \A k \in Jobs : rows[k].errs \in Nat
        /\ \A s \in Runs : rjob[s] \in Jobs
        /\ UNCHANGED <<rows, created, rjob, res, snap>>
        /\ pc[r] = "record" /\ pc'[r] = IF res[r] = "missing" THEN "notify" ELSE "apply"
        /\ \A s \in Runs \ {r} : pc'[s] = pc[s]
        /\ \A k \in Jobs \ {j} : streak'[k] = streak[k] /\ (k \in won' <=> k \in won)
        /\ streak'[j] <= streak[j] + 1
        /\ res[r] = "ok" => streak'[j] = 0
        /\ res[r] # "ok" => won' = won
    BY DEF Record, RestInv, RowsInv, Row, rowVars, timerVars, clientVars
  <1>1. /\ \A s \in Runs \ {r} : /\ Active(s)' <=> Active(s)
                                 /\ Finalized(s)' <=> Finalized(s)
                                 /\ Charged(s)' <=> Charged(s)
                                 /\ Settling(s)' <=> Settling(s)
        /\ ~Finalized(r)' /\ ~Charged(r)
    BY <1>0 DEF Active, Finalized, Charged, Settling
  <1>2. BudgetInv'
    BY <1>0 DEF LimitInv, BudgetInv, Limit
  <1>3. /\ j \in created
        /\ \A s \in Runs \ {r} : rjob[s] = j =>
             ~Active(s) /\ ~Finalized(s) /\ ~Charged(s) /\ pc[s] \notin {"apply", "save", "rsave"}
    <2>1. CASE Finalized(r)
      BY <2>1 DEF LimitInv, MissingInv, Active, Charged, Settling
    <2>2. CASE Active(r)
      BY <2>2, OnlyRun
    <2> QED BY <1>0, <2>1, <2>2 DEF Finalized, Active
  <1> HIDE DEF j
  <1>4. Exists(j) => streak[j] <= rows[j].errs
    <2>1. \A s \in Runs : rjob[s] = j => ~Charged(s)
      BY <1>1, <1>3
    <2> QED BY <1>0, <2>1 DEF LimitInv, StreakInv
  <1>5. Finalized(r) /\ Exists(j) => streak[j] < rows[j].errs
    BY <1>0 DEF LimitInv, MissingInv, j
  <1>6. ~Finalized(r) => Active(r) /\ (Charged(r)' <=> res[r] # "ok")
    BY <1>0 DEF Finalized, Active, Charged, Settling
  <1>7. StreakInv'
    <2> SUFFICES ASSUME NEW k \in Jobs
                 PROVE  /\ Exists(k)' => streak'[k] <= rows'[k].errs + 1
                        /\ Exists(k)' /\ (\A s \in Runs : rjob'[s] = k => ~Charged(s)') =>
                             streak'[k] <= rows'[k].errs
                        /\ k \notin created' => streak'[k] = 0 /\ k \notin won'
      BY DEF StreakInv
    <2>1. CASE k = j
      <3>1. Exists(k)' <=> Exists(k)
        BY <1>0 DEF Exists
      <3>2. CASE Finalized(r)
        BY <1>0, <1>3, <1>4, <1>5, <2>1, <3>1, <3>2
      <3>3. CASE ~Finalized(r)
        BY <1>0, <1>3, <1>4, <1>6, <2>1, <3>1, <3>3 DEF j
      <3> QED BY <3>2, <3>3
    <2>2. CASE k # j
      <3>1. (\A s \in Runs : rjob'[s] = k => ~Charged(s)') => \A s \in Runs : rjob[s] = k => ~Charged(s)
        BY <1>0, <1>1, <2>2 DEF j
      <3> QED BY <1>0, <2>2, <3>1 DEF LimitInv, StreakInv, Exists
    <2> QED BY <2>1, <2>2
  <1>8. CopyInv'
    <2> SUFFICES ASSUME NEW s \in Runs, pc'[s] \in {"save", "rsave"}
                 PROVE  /\ snap'[s].status = "running"
                        /\ snap'[s].errs < Limit(snap'[s])
                        /\ streak'[rjob'[s]] <= snap'[s].errs + 1
                        /\ ~Charged(s)' => streak'[rjob'[s]] <= snap'[s].errs
                        /\ snap'[s].kind = "at" /\ rjob'[s] \in won' => pc'[s] = "save" /\ res'[s] = "ok"
      BY DEF CopyInv
    <2>1. s # r /\ pc[s] \in {"save", "rsave"}
      BY <1>0
    <2>2. rjob[s] # j
      BY <1>3, <2>1
    <2> QED BY <1>0, <1>1, <2>1, <2>2 DEF LimitInv, CopyInv
  <1>9. SuccessInv'
    <2> SUFFICES ASSUME NEW s \in Runs, Settling(s)', res'[s] = "ok" PROVE streak'[rjob'[s]] = 0
      BY DEF SuccessInv
    <2>1. CASE s = r
      BY <1>0, <2>1 DEF j
    <2>2. CASE s # r
      <3>1. Settling(s) /\ rjob[s] # j
        BY <1>1, <1>3, <2>2 DEF Settling
      <3> QED BY <1>0, <3>1 DEF LimitInv, SuccessInv
    <2> QED BY <2>1, <2>2
  <1>10. MissingInv'
    <2> SUFFICES ASSUME NEW s \in Runs, Finalized(s)'
                 PROVE  /\ rjob'[s] \in created'
                        /\ \A q \in Runs : (Active(q)' \/ Finalized(q)') /\ rjob'[q] = rjob'[s] => q = s
                        /\ Exists(rjob[s])' =>
                             /\ rows'[rjob'[s]].status = "failed"
                             /\ streak'[rjob'[s]] < rows'[rjob'[s]].errs
      BY DEF MissingInv
    <2>1. s # r /\ Finalized(s)
      BY <1>1
    <2>2. rjob[s] # j
      BY <1>3, <2>1
    <2>3. \A q \in Runs : (Active(q)' \/ Finalized(q)') /\ rjob[q] = rjob[s] => Active(q) \/ Finalized(q)
      BY <1>1, <2>2 DEF j
    <2> QED BY <1>0, <2>1, <2>2, <2>3 DEF LimitInv, MissingInv, Exists
  <1>11. WonInv'
    <2> SUFFICES ASSUME NEW k \in won', rows'[k].kind = "at", Exists(k)'
                 PROVE  \/ rows'[k].status = "disabled"
                        \/ /\ rows'[k].status = "running"
                           /\ rjob'[rows'[k].token] = k
                           /\ pc'[rows'[k].token] \in {"apply", "save"}
                           /\ res'[rows'[k].token] = "ok"
      BY DEF WonInv
    <2>1. k \in Jobs /\ Exists(k)
      BY <1>0 DEF RestInv, Exists
    <2>2. CASE k \in won
      <3>1. CASE rows[k].status = "disabled"
        BY <1>0, <3>1
      <3>2. CASE rows[k].status = "running"
        <4>1. rows[k].token \in Runs
          BY <2>1, <3>2 DEF LimitInv, BudgetInv, RowsInv, Row
        <4>2. rjob[rows[k].token] = k /\ pc[rows[k].token] \in {"apply", "save"}
              /\ res[rows[k].token] = "ok"
          BY <1>0, <2>1, <2>2, <3>2 DEF LimitInv, WonInv
        <4>3. rows[k].token # r
          BY <1>0, <4>2
        <4> QED BY <1>0, <3>2, <4>1, <4>2, <4>3
      <3> QED BY <1>0, <2>1, <2>2, <3>1, <3>2 DEF LimitInv, WonInv
    <2>3. CASE k \notin won
      <3>1. k = j /\ res[r] = "ok"
        BY <1>0, <2>1, <2>3
      <3>2. Active(r)
        BY <1>0, <3>1 DEF Active
      <3>3. rows[k].token = r /\ rows[k].status = "running"
        BY <2>1, <3>1, <3>2, OnlyRun DEF j
      <3> QED BY <1>0, <3>1, <3>3 DEF j
    <2> QED BY <2>2, <2>3
  <1> QED BY <1>2, <1>7, <1>8, <1>9, <1>10, <1>11 DEF LimitInv

\* apply_reserved_result finds the reservation and reads the row ...
LEMMA ApplyReadStep ==
  ASSUME RestInv, RowsInv, LockInv, LimitInv, RestInv', NEW r \in Runs, ApplyRead(r), Owns(r)
  PROVE  LimitInv'
  <1> DEFINE j == rjob[r]
  <1>0. /\ j \in Jobs /\ rows[j].token = r /\ Exists(j)
        /\ UNCHANGED <<rows, created, rjob, res, streak, won>>
        /\ pc[r] = "apply" /\ pc'[r] = "save" /\ snap'[r] = rows[j]
        /\ \A s \in Runs \ {r} : SameRun(s)
    BY DEF ApplyRead, Owns, SameRun, RestInv, RowsInv, rowVars, timerVars, clientVars, history
  <1>1. \A s \in Runs : /\ Active(s)' <=> Active(s)
                        /\ Finalized(s)' <=> Finalized(s)
                        /\ Charged(s)' <=> Charged(s)
                        /\ Settling(s)' <=> Settling(s)
    BY <1>0 DEF Active, Finalized, Charged, Settling, SameRun
  <1>2. Active(r)
    BY <1>0 DEF Active
  <1>3. rows[j].status = "running" /\ \A s \in Runs \ {r} : rjob[s] = j => ~Charged(s)
    BY <1>0, <1>2, OnlyRun
  <1> HIDE DEF j
  <1>4. BudgetInv' /\ StreakInv' /\ SuccessInv' /\ MissingInv'
    BY <1>0, <1>1 DEF LimitInv, BudgetInv, StreakInv, SuccessInv, MissingInv, Limit, Exists
  <1>5. CopyInv'
    <2> SUFFICES ASSUME NEW s \in Runs, pc'[s] \in {"save", "rsave"}
                 PROVE  /\ snap'[s].status = "running"
                        /\ snap'[s].errs < Limit(snap'[s])
                        /\ streak'[rjob'[s]] <= snap'[s].errs + 1
                        /\ ~Charged(s)' => streak'[rjob'[s]] <= snap'[s].errs
                        /\ snap'[s].kind = "at" /\ rjob'[s] \in won' => pc'[s] = "save" /\ res'[s] = "ok"
      BY DEF CopyInv
    <2>1. CASE s = r
      <3>1. rows[j].errs < Limit(rows[j]) /\ streak[j] <= rows[j].errs + 1
        BY <1>0, <1>3 DEF LimitInv, BudgetInv, StreakInv
      <3>2. ~Charged(r) => streak[j] <= rows[j].errs
        BY <1>0, <1>3 DEF LimitInv, StreakInv
      <3>3. rows[j].kind = "at" /\ j \in won => res[r] = "ok"
        BY <1>0, <1>3 DEF LimitInv, WonInv
      <3> QED BY <1>0, <1>1, <1>3, <2>1, <3>1, <3>2, <3>3 DEF j
    <2>2. CASE s # r
      BY <1>0, <1>1, <2>2 DEF LimitInv, CopyInv, SameRun
    <2> QED BY <2>1, <2>2
  <1>6. WonInv'
    <2> SUFFICES ASSUME NEW k \in won, rows[k].kind = "at", Exists(k), k \in Jobs,
                        rows[k].status = "running"
                 PROVE  /\ rjob'[rows[k].token] = k
                        /\ pc'[rows[k].token] \in {"apply", "save"}
                        /\ res'[rows[k].token] = "ok"
      BY <1>0 DEF WonInv, LimitInv, RestInv, Exists
    <2>1. rows[k].token \in Runs
      BY DEF LimitInv, BudgetInv, RowsInv, Row
    <2> QED BY <1>0, <2>1 DEF LimitInv, WonInv, SameRun
  <1> QED BY <1>4, <1>5, <1>6 DEF LimitInv

\* ... or the row is gone.
LEMMA ApplyLostStep ==
  ASSUME RestInv, RowsInv, LockInv, LimitInv, RestInv', NEW r \in Runs, ApplyRead(r), ~Owns(r)
  PROVE  LimitInv'
  <1> DEFINE j == rjob[r]
  <1>0. /\ j \in Jobs
        /\ UNCHANGED <<rows, created, rjob, res, streak, won>>
        /\ pc[r] = "apply" /\ pc'[r] \in {"record", "notify"} /\ snap'[r] = snap[r]
        /\ pc'[r] = "record" <=> res[r] = "missing"
        /\ \A s \in Runs \ {r} : SameRun(s)
    BY DEF ApplyRead, Onward, SameRun, RestInv, rowVars, timerVars, clientVars, history
  <1>1. \A s \in Runs \ {r} : /\ Active(s)' <=> Active(s)
                              /\ Finalized(s)' <=> Finalized(s)
                              /\ Charged(s)' <=> Charged(s)
                              /\ Settling(s)' <=> Settling(s)
    BY <1>0 DEF Active, Finalized, Charged, Settling, SameRun
  <1>2. Active(r) /\ ~Active(r)' /\ ~Settling(r)' /\ ~Charged(r)'
    BY <1>0 DEF Active, Settling, Charged
  <1>3. /\ ~Exists(j) /\ j \in created
        /\ \A s \in Runs \ {r} : rjob[s] = j => ~Active(s) /\ ~Finalized(s)
    BY <1>2, OnlyRun DEF Owns
  <1> HIDE DEF j
  <1>4. BudgetInv' /\ SuccessInv'
    BY <1>0, <1>1, <1>2 DEF LimitInv, BudgetInv, SuccessInv, Limit, SameRun
  <1>5. CopyInv'
    BY <1>0, <1>1 DEF LimitInv, CopyInv, SameRun
  <1>6. StreakInv'
    <2> SUFFICES ASSUME NEW k \in Jobs
                 PROVE  /\ Exists(k) => streak[k] <= rows[k].errs + 1
                        /\ Exists(k) /\ (\A s \in Runs : rjob[s] = k => ~Charged(s)') =>
                             streak[k] <= rows[k].errs
                        /\ k \notin created => streak[k] = 0 /\ k \notin won
      BY <1>0 DEF StreakInv, Exists
    <2>1. CASE k = j
      BY <1>3, <2>1
    <2>2. CASE k # j
      <3>1. (\A s \in Runs : rjob[s] = k => ~Charged(s)') => \A s \in Runs : rjob[s] = k => ~Charged(s)
        BY <1>1, <2>2 DEF j
      <3> QED BY <3>1 DEF LimitInv, StreakInv
    <2> QED BY <2>1, <2>2
  <1>7. MissingInv'
    <2> SUFFICES ASSUME NEW s \in Runs, Finalized(s)'
                 PROVE  /\ rjob[s] \in created
                        /\ \A q \in Runs : (Active(q)' \/ Finalized(q)') /\ rjob[q] = rjob[s] => q = s
                        /\ Exists(rjob[s]) =>
                             /\ rows[rjob[s]].status = "failed"
                             /\ streak[rjob[s]] < rows[rjob[s]].errs
      BY <1>0 DEF MissingInv, Exists
    <2>1. CASE s = r
      BY <1>1, <1>3, <2>1 DEF j
    <2>2. CASE s # r
      <3>1. Finalized(s) /\ rjob[s] # j
        BY <1>1, <1>3, <2>2
      <3>2. \A q \in Runs : (Active(q)' \/ Finalized(q)') /\ rjob[q] = rjob[s] => Active(q) \/ Finalized(q)
        BY <1>1, <3>1 DEF j
      <3> QED BY <3>1, <3>2 DEF LimitInv, MissingInv
    <2> QED BY <2>1, <2>2
  <1>8. WonInv'
    <2> SUFFICES ASSUME NEW k \in won, rows[k].kind = "at", Exists(k), k \in Jobs,
                        rows[k].status = "running"
                 PROVE  /\ rjob'[rows[k].token] = k
                        /\ pc'[rows[k].token] \in {"apply", "save"}
                        /\ res'[rows[k].token] = "ok"
      BY <1>0 DEF WonInv, LimitInv, RestInv, Exists
    <2>1. rows[k].token \in Runs
      BY DEF LimitInv, BudgetInv, RowsInv, Row
    <2>2. rjob[rows[k].token] = k /\ k # j
      BY <1>3 DEF LimitInv, WonInv
    <2> QED BY <1>0, <2>1, <2>2 DEF LimitInv, WonInv, SameRun, j
  <1> QED BY <1>4, <1>5, <1>6, <1>7, <1>8 DEF LimitInv

\* The only active run of a job writes the row it holds, changed in such a way
\* that it counts what is recorded, and is done with it.
LEMMA WriteBackStep ==
  ASSUME RestInv, RowsInv, LockInv, LimitInv, RestInv', RowsInv', NEW r \in Runs, Active(r),
         NEW row, rows' = [rows EXCEPT ![rjob[r]] = row],
         UNCHANGED <<created, rjob, streak, won>>,
         \A s \in Runs \ {r} : SameRun(s),
         ~Active(r)', ~Settling(r)', pc'[r] \notin {"save", "rsave"},
         row.token = NoRun, row.status # "running",
         row.errs <= Limit(row), row.status = "pending" => row.errs < Limit(row),
         row.status # "absent" => streak[rjob[r]] <= row.errs,
         Finalized(r)' => row.status = "failed" /\ streak[rjob[r]] < row.errs,
         row.kind = "at" /\ rjob[r] \in won => row.status \in {"absent", "disabled"}
  PROVE  LimitInv'
  <1> DEFINE j == rjob[r]
  <1>0. /\ j \in Jobs /\ rows'[j] = row /\ row.errs \in Nat /\ streak[j] \in Nat
        /\ \A k \in Jobs \ {j} : rows'[k] = rows[k]
    BY DEF RestInv, RowsInv, Row
  <1>1. \A s \in Runs \ {r} : /\ Active(s)' <=> Active(s)
                              /\ Finalized(s)' <=> Finalized(s)
                              /\ Charged(s)' <=> Charged(s)
                              /\ Settling(s)' <=> Settling(s)
    BY DEF Active, Finalized, Charged, Settling, SameRun
  <1>2. /\ j \in created
        /\ \A s \in Runs \ {r} : rjob[s] = j =>
             ~Active(s) /\ ~Finalized(s) /\ ~Charged(s) /\ pc[s] \notin {"apply", "save", "rsave"}
    BY OnlyRun
  <1>3. ~Charged(r)'
    BY DEF Charged
  <1> HIDE DEF j
  <1>4. BudgetInv'
    <2> SUFFICES ASSUME NEW k \in Jobs
                 PROVE  /\ rows'[k].token # NoRun <=> rows'[k].status = "running"
                        /\ rows'[k].errs <= Limit(rows'[k])
                        /\ rows'[k].status \in {"pending", "running"} =>
                             rows'[k].errs < Limit(rows'[k])
      BY DEF BudgetInv
    <2>1. CASE k = j
      BY <1>0, <2>1
    <2>2. CASE k # j
      BY <1>0, <2>2 DEF LimitInv, BudgetInv
    <2> QED BY <2>1, <2>2
  <1>5. StreakInv'
    <2> SUFFICES ASSUME NEW k \in Jobs
                 PROVE  /\ Exists(k)' => streak[k] <= rows'[k].errs + 1
                        /\ Exists(k)' /\ (\A s \in Runs : rjob[s] = k => ~Charged(s)') =>
                             streak[k] <= rows'[k].errs
                        /\ k \notin created => streak[k] = 0 /\ k \notin won
      BY DEF StreakInv
    <2>1. CASE k = j
      BY <1>0, <1>2, <2>1 DEF Exists, j
    <2>2. CASE k # j
      <3>1. (\A s \in Runs : rjob[s] = k => ~Charged(s)') => \A s \in Runs : rjob[s] = k => ~Charged(s)
        BY <1>1, <2>2 DEF j
      <3>2. rows'[k] = rows[k] /\ (Exists(k)' <=> Exists(k))
        BY <1>0, <2>2 DEF Exists
      <3> QED BY <3>1, <3>2 DEF LimitInv, StreakInv
    <2> QED BY <2>1, <2>2
  <1>6. CopyInv' /\ SuccessInv'
    BY <1>1 DEF LimitInv, CopyInv, SuccessInv, SameRun
  <1>7. MissingInv'
    <2> SUFFICES ASSUME NEW s \in Runs, Finalized(s)'
                 PROVE  /\ rjob[s] \in created
                        /\ \A q \in Runs : (Active(q)' \/ Finalized(q)') /\ rjob[q] = rjob[s] => q = s
                        /\ Exists(rjob[s])' =>
                             /\ rows'[rjob[s]].status = "failed"
                             /\ streak[rjob[s]] < rows'[rjob[s]].errs
      BY DEF MissingInv
    <2>1. CASE s = r
      BY <1>0, <1>1, <1>2, <2>1 DEF j
    <2>2. CASE s # r
      <3>1. Finalized(s) /\ rjob[s] # j /\ rjob[s] \in Jobs
        BY <1>1, <1>2, <2>2 DEF RestInv
      <3>2. \A q \in Runs : (Active(q)' \/ Finalized(q)') /\ rjob[q] = rjob[s] => Active(q) \/ Finalized(q)
        BY <1>1, <3>1 DEF j
      <3>3. rows'[rjob[s]] = rows[rjob[s]]
        BY <1>0, <3>1
      <3>4. Exists(rjob[s])' <=> Exists(rjob[s])
        BY <3>3 DEF Exists
      <3> QED BY <3>1, <3>2, <3>3, <3>4 DEF LimitInv, MissingInv
    <2> QED BY <2>1, <2>2
  <1>8. WonInv'
    <2> SUFFICES ASSUME NEW k \in won, rows'[k].kind = "at", Exists(k)', k \in Jobs
                 PROVE  \/ rows'[k].status = "disabled"
                        \/ /\ rows'[k].status = "running"
                           /\ rjob[rows'[k].token] = k
                           /\ pc'[rows'[k].token] \in {"apply", "save"}
                           /\ res'[rows'[k].token] = "ok"
      BY DEF WonInv, RestInv
    <2>1. CASE k = j
      BY <1>0, <2>1 DEF Exists, j
    <2>2. CASE k # j
      <3>1. rows'[k] = rows[k] /\ Exists(k)
        BY <1>0, <2>2 DEF Exists
      <3>2. CASE rows[k].status = "running"
        <4>1. rows[k].token \in Runs
          BY <3>2 DEF LimitInv, BudgetInv, RowsInv, Row
        <4>2. rjob[rows[k].token] = k /\ pc[rows[k].token] \in {"apply", "save"}
              /\ res[rows[k].token] = "ok"
          BY <3>1, <3>2 DEF LimitInv, WonInv
        <4> QED BY <2>2, <3>1, <3>2, <4>1, <4>2 DEF SameRun, j
      <3>3. CASE rows[k].status # "running"
        BY <3>1, <3>3 DEF LimitInv, WonInv
      <3> QED BY <3>2, <3>3
    <2> QED BY <2>1, <2>2
  <1> QED BY <1>4, <1>5, <1>6, <1>7, <1>8 DEF LimitInv

\* The result is applied to the row that was read.
LEMMA ApplySaveStep ==
  ASSUME RestInv, RowsInv, LockInv, LimitInv, RestInv', RowsInv', NEW r \in Runs, ApplySave(r)
  PROVE  LimitInv'
  <1>1. PICK bad \in BOOLEAN :
          rows' = [rows EXCEPT ![rjob[r]] = Applied(snap[r], res[r], bad)]
    BY DEF ApplySave
  <1> DEFINE row == Applied(snap[r], res[r], bad)
  <1>2. /\ UNCHANGED <<created, rjob, res, streak, won>>
        /\ pc[r] = "save" /\ pc'[r] \in {"record", "notify"}
        /\ pc'[r] = "record" <=> res[r] = "missing"
        /\ \A s \in Runs \ {r} : SameRun(s)
    BY DEF ApplySave, Onward, SameRun, RestInv, timerVars, clientVars, history
  <1>3. Active(r) /\ ~Active(r)' /\ ~Settling(r)' /\ (Finalized(r)' <=> res[r] = "missing")
    BY <1>2 DEF Active, Settling, Finalized
  <1>4. /\ snap[r] \in Row /\ Sound(snap[r]) /\ snap[r].token # NoRun
        /\ snap[r].errs \in Nat /\ streak[rjob[r]] \in Nat
        /\ res[r] \in {"none", "missing", "ok", "transient", "permanent"}
    BY <1>2, RunsAssumption DEF RowsInv, SnapInv, Row, RestInv
  <1>5. /\ snap[r].status = "running" /\ snap[r].errs < Limit(snap[r])
        /\ streak[rjob[r]] <= snap[r].errs + 1
        /\ ~Charged(r) => streak[rjob[r]] <= snap[r].errs
        /\ snap[r].kind = "at" /\ rjob[r] \in won => res[r] = "ok"
    BY <1>2 DEF LimitInv, CopyInv
  <1>6. row.token = NoRun /\ row.status # "running"
    BY <1>4, AppliedSound
  <1>7. /\ row.errs <= Limit(row)
        /\ row.status = "pending" => row.errs < Limit(row)
        /\ res[r] = "missing" => row.status = "failed" /\ row.errs = snap[r].errs + 1
        /\ res[r] = "ok" /\ row.kind = "at" => row.status \in {"absent", "disabled"}
        /\ res[r] # "ok" => row.errs = snap[r].errs + 1 /\ row.kind = snap[r].kind
        /\ 0 <= row.errs
    BY <1>4, <1>5, AppliedLimit
  <1>8. res[r] = "ok" => streak[rjob[r]] = 0
    BY <1>2 DEF LimitInv, SuccessInv, Settling
  <1>9. res[r] = "missing" => ~Charged(r)
    BY DEF Charged, Settling
  <1> HIDE DEF row
  <1>10. streak[rjob[r]] <= row.errs
    BY <1>4, <1>5, <1>7, <1>8
  <1>11. Finalized(r)' => row.status = "failed" /\ streak[rjob[r]] < row.errs
    BY <1>3, <1>4, <1>5, <1>7, <1>9
  <1>12. row.kind = "at" /\ rjob[r] \in won => row.status \in {"absent", "disabled"}
    BY <1>5, <1>7
  <1>13. rows' = [rows EXCEPT ![rjob[r]] = row]
    BY <1>1 DEF row
  <1> QED BY <1>2, <1>3, <1>6, <1>7, <1>10, <1>11, <1>12, <1>13, WriteBackStep

\* A cancelled run finds its reservation and reads the row ...
LEMMA ReleaseReadStep ==
  ASSUME RestInv, RowsInv, LockInv, LimitInv, RestInv', NEW r \in Runs, ReleaseRead(r), Owns(r)
  PROVE  LimitInv'
  <1> DEFINE j == rjob[r]
  <1>0. /\ j \in Jobs /\ rows[j].token = r /\ Exists(j)
        /\ UNCHANGED <<rows, created, rjob, res, streak, won>>
        /\ pc[r] = "release" /\ pc'[r] = "rsave" /\ snap'[r] = rows[j]
        /\ \A s \in Runs \ {r} : SameRun(s)
    BY DEF ReleaseRead, Owns, SameRun, RestInv, RowsInv, rowVars, timerVars, clientVars, history
  <1>1. /\ \A s \in Runs : /\ Finalized(s)' <=> Finalized(s)
                           /\ Charged(s)' <=> Charged(s)
                           /\ Settling(s)' <=> Settling(s)
        /\ \A s \in Runs \ {r} : Active(s)' <=> Active(s)
        /\ ~Charged(r)
    BY <1>0 DEF Active, Finalized, Charged, Settling, SameRun
  <1>2. /\ rows[j].status = "running"
        /\ \A s \in Runs : rjob[s] = j => ~Charged(s) /\ ~Finalized(s)
    <2>1. rows[j].status = "running"
      BY <1>0, RunsAssumption DEF LimitInv, BudgetInv
    <2>2. \A s \in Runs : rjob[s] = j => ~Finalized(s)
      BY <1>0, <2>1 DEF LimitInv, MissingInv
    <2>3. ASSUME NEW s \in Runs, rjob[s] = j, Charged(s) PROVE FALSE
      <3>1. Active(s)
        BY <2>3 DEF Charged, Settling, Active
      <3>2. s = r
        BY <1>0, <2>3, <3>1, OnlyRun
      <3> QED BY <1>1, <2>3, <3>2
    <2> QED BY <2>1, <2>2, <2>3
  <1> HIDE DEF j
  <1>3. BudgetInv' /\ StreakInv' /\ SuccessInv'
    BY <1>0, <1>1 DEF LimitInv, BudgetInv, StreakInv, SuccessInv, Limit, Exists
  <1>4. MissingInv'
    <2> SUFFICES ASSUME NEW s \in Runs, Finalized(s)'
                 PROVE  /\ rjob[s] \in created
                        /\ \A q \in Runs : (Active(q)' \/ Finalized(q)') /\ rjob[q] = rjob[s] => q = s
                        /\ Exists(rjob[s]) =>
                             /\ rows[rjob[s]].status = "failed"
                             /\ streak[rjob[s]] < rows[rjob[s]].errs
      BY <1>0 DEF MissingInv, Exists
    <2>1. Finalized(s) /\ rjob[s] # j
      BY <1>1, <1>2
    <2>2. \A q \in Runs : (Active(q)' \/ Finalized(q)') /\ rjob[q] = rjob[s] => Active(q) \/ Finalized(q)
      BY <1>1, <2>1 DEF j
    <2> QED BY <2>1, <2>2 DEF LimitInv, MissingInv
  <1>5. CopyInv'
    <2> SUFFICES ASSUME NEW s \in Runs, pc'[s] \in {"save", "rsave"}
                 PROVE  /\ snap'[s].status = "running"
                        /\ snap'[s].errs < Limit(snap'[s])
                        /\ streak'[rjob'[s]] <= snap'[s].errs + 1
                        /\ ~Charged(s)' => streak'[rjob'[s]] <= snap'[s].errs
                        /\ snap'[s].kind = "at" /\ rjob'[s] \in won' => pc'[s] = "save" /\ res'[s] = "ok"
      BY DEF CopyInv
    <2>1. CASE s = r
      <3>1. rows[j].errs < Limit(rows[j]) /\ streak[j] <= rows[j].errs /\ streak[j] <= rows[j].errs + 1
        BY <1>0, <1>2 DEF LimitInv, BudgetInv, StreakInv
      <3>2. ~(rows[j].kind = "at" /\ j \in won)
        BY <1>0, <1>2 DEF LimitInv, WonInv
      <3> QED BY <1>0, <1>2, <2>1, <3>1, <3>2 DEF j
    <2>2. CASE s # r
      BY <1>0, <1>1, <2>2 DEF LimitInv, CopyInv, SameRun
    <2> QED BY <2>1, <2>2
  <1>6. WonInv'
    <2> SUFFICES ASSUME NEW k \in won, rows[k].kind = "at", Exists(k), k \in Jobs,
                        rows[k].status = "running"
                 PROVE  /\ rjob'[rows[k].token] = k
                        /\ pc'[rows[k].token] \in {"apply", "save"}
                        /\ res'[rows[k].token] = "ok"
      BY <1>0 DEF WonInv, LimitInv, RestInv, Exists
    <2>1. rows[k].token \in Runs
      BY DEF LimitInv, BudgetInv, RowsInv, Row
    <2>2. pc[rows[k].token] \in {"apply", "save"}
      BY DEF LimitInv, WonInv
    <2> QED BY <1>0, <2>1, <2>2 DEF LimitInv, WonInv, SameRun
  <1> QED BY <1>3, <1>4, <1>5, <1>6 DEF LimitInv

\* ... and writes it back released.
LEMMA ReleaseSaveStep ==
  ASSUME RestInv, RowsInv, LockInv, LimitInv, RestInv', RowsInv', NEW r \in Runs, ReleaseSave(r)
  PROVE  LimitInv'
  <1> DEFINE row == Released(snap[r])
  <1>1. /\ rows' = [rows EXCEPT ![rjob[r]] = row]
        /\ UNCHANGED <<created, rjob, streak, won>>
        /\ pc[r] = "rsave" /\ pc'[r] = "free"
        /\ \A s \in Runs \ {r} : SameRun(s)
    BY DEF ReleaseSave, Finish, SameRun, RestInv, RowsInv, timerVars, clientVars, history
  <1>2. Active(r) /\ ~Active(r)' /\ ~Settling(r)' /\ ~Finalized(r)' /\ ~Charged(r)
    BY <1>1 DEF Active, Settling, Finalized, Charged
  <1>3. snap[r] \in Row /\ snap[r].status = "running" /\ snap[r].errs < Limit(snap[r])
        /\ snap[r].errs \in Nat /\ Limit(snap[r]) \in Nat /\ streak[rjob[r]] <= snap[r].errs
        /\ ~(snap[r].kind = "at" /\ rjob[r] \in won)
    BY <1>1, <1>2, LimitsAssumption DEF LimitInv, CopyInv, RowsInv, Row, Limit
  <1>4. /\ row.token = NoRun /\ row.status = "pending"
        /\ row.errs = snap[r].errs /\ row.kind = snap[r].kind
    BY <1>3 DEF Released, Cleared, Row
  <1> HIDE DEF row
  <1>5. row.errs < Limit(row) /\ row.errs <= Limit(row) /\ streak[rjob[r]] <= row.errs
    BY <1>3, <1>4 DEF Limit
  <1> QED BY <1>1, <1>2, <1>3, <1>4, <1>5, WriteBackStep

\* Every step keeps the limits.
LEMMA LimitStep ==
  ASSUME Rewrites = {}, RestInv, RowsInv, LockInv, LimitInv, [Next]_vars
  PROVE  LimitInv'
  <1>0. RestInv' /\ RowsInv'
    BY RestStep, RowsStep
  <1>s. ASSUME UNCHANGED <<rows, created, pc, res, rjob, snap, streak, won>> PROVE LimitInv'
    <2>1. \A j \in Jobs : RowMoves(j)
      BY <1>s DEF RowMoves, SameRow
    <2> QED BY <1>0, <1>s, <2>1, RowPasses
  <1>1. CASE TimerStep
    <2>1. CASE TickRead \/ TickEnd \/ \E j \in Jobs : TickRejected(j)
      BY <1>s, <2>1 DEF TickRead, TickEnd, TickRejected, rowVars, runVars, clientVars, history
    <2>2. ASSUME NEW j \in Jobs, NEW r \in Runs, TickReserve(j, r) PROVE LimitInv'
      BY <1>0, <2>2, ReserveApplies DEF TickReserve, history
    <2> QED BY <1>1, <2>1, <2>2 DEF TimerStep
  <1>2. CASE Recover
    <2>1. /\ \A j \in Jobs : rows'[j] = RecoveredRow(rows[j])
          /\ UNCHANGED <<created, pc, res, rjob, snap, streak, won>>
          /\ \A r \in Runs : pc[r] = "free"
      BY <1>2 DEF Recover, runVars, clientVars, history, LockInv, DownInv, Up
    <2>2. ASSUME NEW j \in Jobs PROVE RowMoves(j)
      <3>1. rows[j] \in Row /\ (rows[j].token # NoRun <=> rows[j].status = "running")
        BY DEF RowsInv, LimitInv, BudgetInv
      <3>2. /\ RecoveredRow(rows[j]).errs = rows[j].errs /\ RecoveredRow(rows[j]).kind = rows[j].kind
            /\ RecoveredRow(rows[j]).token = NoRun
            /\ rows[j].status = "running" => RecoveredRow(rows[j]).status = "pending"
            /\ rows[j].status # "running" => RecoveredRow(rows[j]).status = rows[j].status
        BY <3>1 DEF RecoveredRow, Cleared, Row
      <3> QED BY <2>1, <3>1, <3>2 DEF RowMoves, SameRow
    <2> QED BY <1>0, <2>1, <2>2, RowPasses
  <1>3. CASE CatchUp
    <2>1. PICK T \in SUBSET Jobs : \E f \in [T -> Runs] :
            /\ \A j \in T : rows[j].status = "pending" /\ rows[j].token = NoRun
            /\ \A j \in T : /\ rows'[j].token = f[j] /\ rows'[j].status = "running"
                            /\ rows'[j].errs = rows[j].errs /\ rows'[j].kind = rows[j].kind
            /\ \A j \in Jobs \ T : SameRow(rows'[j], rows[j])
            /\ \A j \in T : pc'[f[j]] = "stagger" /\ rjob'[f[j]] = j
            /\ \A r \in Runs : (\A j \in T : f[j] # r) => pc'[r] = pc[r] /\ rjob'[r] = rjob[r]
      BY <1>3, CatchUpStep
    <2>2. PICK f \in [T -> Runs] :
            /\ \A j \in T : rows[j].status = "pending" /\ rows[j].token = NoRun
            /\ \A j \in T : /\ rows'[j].token = f[j] /\ rows'[j].status = "running"
                            /\ rows'[j].errs = rows[j].errs /\ rows'[j].kind = rows[j].kind
            /\ \A j \in Jobs \ T : SameRow(rows'[j], rows[j])
            /\ \A j \in T : pc'[f[j]] = "stagger" /\ rjob'[f[j]] = j
            /\ \A r \in Runs : (\A j \in T : f[j] # r) => pc'[r] = pc[r] /\ rjob'[r] = rjob[r]
      BY <2>1
    <2>3. /\ UNCHANGED <<created, res, snap, streak, won>> /\ \A r \in Runs : pc[r] = "free"
      BY <1>3 DEF CatchUp, clientVars, history, LockInv, DownInv, Up
    <2>4. \A j \in Jobs : RowMoves(j)
      BY <2>2, RunsAssumption DEF RowMoves
    <2>5. ASSUME NEW r \in Runs
          PROVE  /\ ~Settling(r) /\ Plain(r)'
                 /\ Active(r)' => Exists(rjob'[r]) /\ rows[rjob'[r]].status # "failed"
      <3>1. CASE \E j \in T : f[j] = r
        <4>1. PICK j \in T : f[j] = r
          BY <3>1
        <4>2. pc'[r] = "stagger" /\ rjob'[r] = j /\ rows[j].status = "pending"
          BY <2>2, <4>1
        <4> QED BY <2>3, <4>2 DEF Settling, Plain, Finalized, Exists
      <3>2. CASE \A j \in T : f[j] # r
        <4>1. pc'[r] = "free"
          BY <2>2, <2>3, <3>2
        <4> QED BY <2>3, <4>1 DEF Settling, Plain, Finalized, Active
      <3> QED BY <3>1, <3>2
    <2> QED BY <1>0, <2>3, <2>4, <2>5, NothingApplied
  <1>4. CASE Stop \/ Crash
    <2>1. PICK R \in SUBSET Runs :
            /\ Forget(R)
            /\ UNCHANGED <<rows, created, rjob>>
            /\ \A r \in R : pc'[r] \in {"free", "release"}
            /\ \A r \in Runs \ R : \/ pc'[r] = "free" /\ pc[r] = "pick"
                                   \/ SameRun(r)
      <3>1. CASE Stop
        <4> DEFINE R == {r \in Runs : \E j \in Jobs : table[j] = r}
        <4>1. /\ Forget(R) /\ UNCHANGED <<rows, created, rjob, res, snap>>
              /\ \A r \in Runs : pc'[r] = IF pc[r] = "pick" /\ src[r] = "timer" THEN "free"
                                         ELSE IF r \in R THEN "release" ELSE pc[r]
          BY <3>1 DEF Stop, rowVars
        <4> QED BY <4>1 DEF SameRun
      <3>2. CASE Crash
        BY <3>2 DEF Crash, rowVars
      <3> QED BY <1>4, <3>1, <3>2
    <2>2. \A j \in Jobs : Forgotten(j) \/ (streak'[j] = streak[j] /\ (j \in won' <=> j \in won))
      BY <2>1 DEF Forget, Forgotten
    <2>3. \A r \in R : Settling(r) => Forgotten(rjob[r])
      BY <2>1 DEF Forget, Forgotten, Settling, RestInv
    <2>4. \A j \in Jobs : RowMoves(j)
      BY <2>1 DEF RowMoves, SameRow
    <2>5. \A r \in Runs : \/ SameRun(r)
                          \/ Plain(r)' /\ (Settling(r) => Forgotten(rjob[r]))
      BY <2>1, <2>3 DEF Plain, Settling, Finalized
    <2>6. \A r \in Runs : Active(r)' => Active(r)
      BY <2>1 DEF Active, SameRun
    <2> QED BY <1>0, <2>1, <2>2, <2>4, <2>5, <2>6, NothingApplied
  <1>5. ASSUME NEW r \in Runs, RunStep(r) PROVE LimitInv'
    <2>1. CASE Picked(r) \/ StaggerEnds(r)
      <3>1. /\ UNCHANGED <<rows, created, rjob, streak, won>>
            /\ \A s \in Runs \ {r} : SameRun(s)
        BY <2>1 DEF Picked, StaggerEnds, Begin, SameRun, rowVars, timerVars, clientVars, history, RestInv
      <3>2. Plain(r) /\ Plain(r)' /\ Active(r)
        BY <2>1 DEF Picked, StaggerEnds, Begin, Plain, Settling, Finalized, Active, RestInv
      <3> QED BY <1>0, <3>1, <3>2, RunPasses
    <2>2. ASSUME NEW o \in Outcomes, ExecEnds(r, o) PROVE LimitInv'
      <3>1. /\ UNCHANGED <<rows, created, rjob, streak, won>>
            /\ \A s \in Runs \ {r} : SameRun(s)
        BY <2>2 DEF ExecEnds, SameRun, rowVars, timerVars, clientVars, history, RestInv
      <3>2. Plain(r) /\ Plain(r)' /\ Active(r)
        BY <2>2, ChoicesAssumption DEF ExecEnds, Plain, Settling, Finalized, Active, RestInv
      <3> QED BY <1>0, <3>1, <3>2, RunPasses
    <2>3. CASE Record(r)
      BY <1>0, <2>3, RecordStep
    <2>4. CASE ApplyRead(r)
      BY <1>0, <2>4, ApplyReadStep, ApplyLostStep
    <2>5. CASE ApplySave(r)
      BY <1>0, <2>5, ApplySaveStep
    <2>6. CASE Notified(r) \/ (ReleaseRead(r) /\ ~Owns(r))
      <3>1. /\ UNCHANGED <<rows, created, rjob, streak, won>>
            /\ pc[r] \in {"notify", "release"} /\ pc'[r] = "free"
            /\ \A s \in Runs \ {r} : SameRun(s)
        BY <2>6 DEF Notified, ReleaseRead, Finish, SameRun, rowVars, timerVars, clientVars, history,
                    RestInv, RowsInv
      <3>2. Plain(r) /\ Plain(r)' /\ ~Active(r)'
        BY <3>1 DEF Plain, Settling, Finalized, Active
      <3> QED BY <1>0, <3>1, <3>2, RunPasses
    <2>7. CASE ReleaseRead(r) /\ Owns(r)
      BY <1>0, <2>7, ReleaseReadStep
    <2>8. CASE ReleaseSave(r)
      BY <1>0, <2>8, ReleaseSaveStep
    <2> QED BY <1>5, <2>1, <2>2, <2>3, <2>4, <2>5, <2>6, <2>7, <2>8 DEF RunStep
  <1>6. ASSUME NEW j \in Jobs, Add(j) PROVE LimitInv'
    <2>1. PICK k \in Kinds, on \in BOOLEAN, past \in BOOLEAN :
            rows' = [rows EXCEPT ![j] =
                     [NoRow EXCEPT !.status = IF on THEN "pending" ELSE "paused",
                                   !.enabled = on, !.kind = k, !.once = k = "at",
                                   !.next = IF past THEN "due" ELSE "future"]]
      BY <1>6 DEF Add
    <2>2. /\ j \notin created /\ created \subseteq created'
          /\ UNCHANGED <<pc, res, rjob, snap, streak, won>>
      BY <1>6 DEF Add, runVars, timerVars, clientVars, history
    <2>3. rows'[j].token = NoRun /\ rows'[j].status \in {"pending", "paused"} /\ rows'[j].errs = 0
      BY <2>1 DEF RowsInv, NoRow
    <2>4. \A i \in Jobs \ {j} : rows'[i] = rows[i]
      BY <2>1 DEF RowsInv
    <2>5. \A i \in Jobs : RowMoves(i)
      BY <2>2, <2>3, <2>4 DEF RowMoves, SameRow
    <2> QED BY <1>0, <2>2, <2>5, RowPasses
  <1>7. ASSUME NEW j \in Jobs, Elapse(j) PROVE LimitInv'
    <2>1. /\ \A i \in Jobs \ {j} : rows'[i] = rows[i]
          /\ SameRow(rows'[j], rows[j])
          /\ UNCHANGED <<created, pc, res, rjob, snap, streak, won>>
      BY <1>7 DEF Elapse, RowsInv, Row, SameRow, runVars, clientVars, history
    <2>2. \A i \in Jobs : RowMoves(i)
      BY <2>1 DEF RowMoves, SameRow
    <2> QED BY <1>0, <2>1, <2>2, RowPasses
  <1>8. ASSUME NEW j \in Jobs, NEW r \in Runs, RunNow(j, r) PROVE LimitInv'
    BY <1>0, <1>8, ReserveApplies DEF RunNow, history
  <1>9. ASSUME NEW c \in Clients, ClientStep(c) PROVE LimitInv'
    <2>1. ASSUME NEW op \in Ops, NEW j \in Jobs, Get(c, op, j) PROVE LimitInv'
      BY <1>s, <2>1 DEF Get, rowVars, runVars, history
    <2>2. CASE PauseSave(c) \/ ResumeSave(c) \/ UpdateSave(c)
      BY <2>2 DEF PauseSave, ResumeSave, UpdateSave, LockInv, ClientInv
    <2>3. CASE RemoveDelete(c)
      <3>1. /\ rows' = [rows EXCEPT ![cjob[c]] = NoRow]
            /\ UNCHANGED <<created, pc, res, rjob, snap, streak, won>>
        BY <2>3 DEF RemoveDelete, Put, runVars, timerVars
      <3>2. \A i \in Jobs : RowMoves(i)
        BY <3>1 DEF RowMoves, SameRow, RowsInv
      <3> QED BY <1>0, <3>1, <3>2, RowPasses
    <2> QED BY <1>9, <2>1, <2>2, <2>3 DEF ClientStep
  <1>10. CASE UNCHANGED vars
    BY <1>s, <1>10 DEF vars, rowVars, runVars, timerVars, clientVars, history
  <1> QED BY <1>1, <1>2, <1>3, <1>4, <1>5, <1>6, <1>7, <1>8, <1>9, <1>10 DEF Next

\* What is recorded of a job and what its row says agree, while clients add,
\* delete and run jobs only.
THEOREM LimitInvariance ==
  ASSUME Rewrites = {}
  PROVE  Spec => []LimitInv
  <1>1. Init => LimitInv
    <2>1. Init => BudgetInv /\ StreakInv
      BY LimitsAssumption DEF Init, BudgetInv, StreakInv, Limit, NoRow, Exists
    <2>2. Init => CopyInv /\ SuccessInv /\ MissingInv /\ WonInv
      BY DEF Init, CopyInv, SuccessInv, MissingInv, WonInv, Settling, Finalized
    <2> QED BY <2>1, <2>2 DEF LimitInv
  <1>2. RowsInv /\ RestInv /\ LockInv /\ LimitInv /\ [Next]_vars => LimitInv'
    BY LimitStep
  <1> QED BY <1>1, <1>2, TypeInvariance, LockInvariance, PTL DEF Spec

\* While clients add, delete and run jobs only, no job that is still there has
\* failed more than MAX_CONSECUTIVE_ERRORS times (_ONE_SHOT_MAX_RETRIES for a
\* one-shot) in a row: _apply_result_state has taken it off the schedule by then,
\* although timer, catch-up and manual runs alternate, the handler may be
\* missing, and the process stops, crashes and restarts at any point.
THEOREM FailuresStayBounded ==
  ASSUME Rewrites = {}
  PROVE  Spec => []FailuresBounded
  <1>1. RestInv /\ RowsInv /\ LockInv /\ LimitInv => FailuresBounded
    <2> SUFFICES ASSUME RestInv, RowsInv, LockInv, LimitInv, NEW j \in Jobs, Exists(j)
                 PROVE  streak[j] <= Limit(rows[j])
      BY DEF FailuresBounded, Limit
    <2>0. streak[j] \in Nat /\ rows[j].errs \in Nat /\ Limit(rows[j]) \in Nat
      BY LimitsAssumption DEF RestInv, RowsInv, Row, Limit
    <2>1. CASE \E r \in Runs : rjob[r] = j /\ Charged(r)
      <3>1. PICK r \in Runs : rjob[r] = j /\ Charged(r)
        BY <2>1
      <3>2. Active(r)
        BY <3>1 DEF Charged, Settling, Active
      <3>3. rows[j].status = "running"
        BY <3>1, <3>2, OnlyRun
      <3>4. rows[j].errs < Limit(rows[j]) /\ streak[j] <= rows[j].errs + 1
        BY <3>3 DEF LimitInv, BudgetInv, StreakInv
      <3> QED BY <2>0, <3>4
    <2>2. CASE ~\E r \in Runs : rjob[r] = j /\ Charged(r)
      <3>1. rows[j].errs <= Limit(rows[j]) /\ streak[j] <= rows[j].errs
        BY <2>2 DEF LimitInv, BudgetInv, StreakInv
      <3> QED BY <2>0, <3>1
    <2> QED BY <2>1, <2>2
  <1> QED BY <1>1, TypeInvariance, LockInvariance, LimitInvariance, PTL

\* While clients add, delete and run jobs only, a one-shot whose success was
\* recorded and not cut off is never PENDING again and no run of it begins: not
\* by the timer, not by run_job_now, and not by the catch-up of a later process.
THEOREM OneShotsRunOnce ==
  ASSUME Rewrites = {}
  PROVE  Spec => []OneShotOnce
  <1>1. RestInv /\ RowsInv /\ LockInv /\ LimitInv => OneShotOnce
    <2> SUFFICES ASSUME RestInv, RowsInv, LockInv, LimitInv,
                        NEW j \in Jobs, j \in won, rows[j].kind = "at", Exists(j)
                 PROVE  /\ rows[j].status # "pending"
                        /\ \A r \in Runs : rjob[r] = j => pc[r] \notin {"pick", "stagger", "exec"}
      BY DEF OneShotOnce
    <2>1. \/ rows[j].status = "disabled"
          \/ rows[j].status = "running" /\ pc[rows[j].token] \in {"apply", "save"}
      BY DEF LimitInv, WonInv
    <2>2. ASSUME NEW r \in Runs, rjob[r] = j, pc[r] \in {"pick", "stagger", "exec"} PROVE FALSE
      <3>1. Active(r)
        BY <2>2 DEF Active
      <3>2. rows[j].token = r /\ rows[j].status = "running"
        BY <2>2, <3>1, OnlyRun
      <3> QED BY <2>1, <2>2, <3>2
    <2> QED BY <2>1, <2>2
  <1> QED BY <1>1, TypeInvariance, LockInvariance, LimitInvariance, PTL

----------------------------------------------------------------------------
(* The slots of the tick loop *)

\* The more generous of the two limits.
Ceiling == IF MaxCatchup > MaxConcurrent THEN MaxCatchup ELSE MaxConcurrent

\* A run that the tick has reserved and not yet read back.
Picks(r) == pc[r] = "pick" /\ src[r] = "timer"

\* The tick waits for one such run at a time, and outside a tick there is none.
PickInv ==
  /\ \A r \in Runs : pc[r] = "pick" => src[r] # "startup"
  /\ \A r, s \in Runs : Picks(r) /\ Picks(s) => r = s
  /\ tpc # "tick" => todo = <<>> /\ ~Picking

\* Every scheduled run that executes is the one listed for its job.
ListedInv == \A r \in Busy : table[rjob[r]] = r

\* The tick plans no more runs than there are slots: those listed, those still
\* to be reserved and the one being read back fit together.  Catch-up alone may
\* list more.
RoomInv ==
  /\ IsFiniteSet(Listed)
  /\ Cardinality(Listed) <= Ceiling
  /\ \E S : todo \in Seq(S)
  /\ todo # <<>> \/ Picking \/ (\E r \in Busy : src[r] = "timer") =>
       Cardinality(Listed) + Len(todo) + (IF Picking THEN 1 ELSE 0) <= MaxConcurrent

SlotInv == PickInv /\ ListedInv /\ RoomInv

\* The scheduled runs that execute are no more than the listed jobs.
LEMMA BusyListed ==
  ASSUME RestInv, SlotInv
  PROVE  IsFiniteSet(Busy) /\ Cardinality(Busy) <= Cardinality(Listed)
  <1> DEFINE f == [r \in Busy |-> rjob[r]]
  <1>1. \A r \in Busy : r \in Runs /\ rjob[r] \in Jobs /\ table[rjob[r]] = r
    BY DEF SlotInv, ListedInv, Busy, RestInv
  <1>2. \A r \in Busy : rjob[r] \in Listed
    BY <1>1, RunsAssumption DEF Listed
  <1>3. f \in [Busy -> Listed]
    BY <1>2
  <1>4. \A r, s \in Busy : f[r] = f[s] => r = s
    BY <1>1
  <1>5. f \in Injection(Busy, Listed)
    BY <1>3, <1>4 DEF Injection, IsInjective
  <1> QED BY <1>5, FS_Injection DEF SlotInv, RoomInv

\* A step that adds no task to _running and starts no scheduled run keeps the
\* slots.
LEMMA SlotKeeps ==
  ASSUME SlotInv,
         \A r \in Runs : pc'[r] = "pick" => src'[r] # "startup" /\ (Picks(r)' => Picks(r)),
         \A r \in Busy' : r \in Busy /\ src'[r] = src[r] /\ table'[rjob'[r]] = r,
         Listed' \subseteq Listed,
         todo' = todo \/ todo' = <<>>,
         tpc' # "tick" => todo' = <<>> /\ ~Picking'
  PROVE  SlotInv'
  <1>1. Picking' => Picking
    BY DEF Picking, Picks
  <1>2. PickInv'
    <2>1. \A r, s \in Runs : Picks(r)' /\ Picks(s)' => r = s
      <3>1. \A r \in Runs : Picks(r)' => Picks(r)
        BY DEF Picks
      <3> QED BY <3>1 DEF SlotInv, PickInv
    <2> QED BY <2>1 DEF PickInv
  <1>3. ListedInv'
    BY DEF ListedInv
  <1>4. /\ IsFiniteSet(Listed) /\ IsFiniteSet(Listed') /\ Cardinality(Listed') <= Cardinality(Listed)
        /\ Cardinality(Listed') \in Nat /\ Cardinality(Listed) \in Nat
    BY FS_Subset, FS_CardinalityType DEF SlotInv, RoomInv
  <1>5. PICK S : todo \in Seq(S)
    BY DEF SlotInv, RoomInv
  <1>6. todo' \in Seq(S) /\ Len(todo) \in Nat /\ Len(todo') \in Nat /\ Len(todo') <= Len(todo)
    <2>1. CASE todo' = todo
      BY <1>5, <2>1
    <2>2. CASE todo' = <<>>
      BY <1>5, <2>2
    <2> QED BY <2>1, <2>2
  <1>7. (\E r \in Busy' : src'[r] = "timer") => \E r \in Busy : src[r] = "timer"
    OBVIOUS
  <1>8. Ceiling \in Nat /\ MaxConcurrent \in Nat /\ Ceiling' = Ceiling
    BY LimitsAssumption DEF Ceiling
  <1>9. RoomInv'
    <2>1. Cardinality(Listed') <= Ceiling
      BY <1>4, <1>8 DEF SlotInv, RoomInv
    <2>2. ASSUME todo' # <<>> \/ Picking' \/ (\E r \in Busy' : src'[r] = "timer")
          PROVE  Cardinality(Listed') + Len(todo') + (IF Picking' THEN 1 ELSE 0) <= MaxConcurrent
      <3>1. todo # <<>> \/ Picking \/ (\E r \in Busy : src[r] = "timer")
        BY <1>1, <1>7, <2>2
      <3>2. Cardinality(Listed) + Len(todo) + (IF Picking THEN 1 ELSE 0) <= MaxConcurrent
        BY <3>1 DEF SlotInv, RoomInv
      <3> QED BY <3>2, <1>1, <1>4, <1>6, <1>8
    <2> QED BY <1>4, <1>6, <1>8, <2>1, <2>2 DEF RoomInv
  <1> QED BY <1>2, <1>3, <1>9 DEF SlotInv

\* A tick takes at most as many due jobs as there are free slots.
LEMMA TickReadSlots ==
  ASSUME SlotInv, TickRead
  PROVE  SlotInv'
  <1>1. tpc = "idle" /\ todo = <<>> /\ ~Picking
    BY DEF TickRead, SlotInv, PickInv
  <1>2. /\ UNCHANGED <<pc, src, rjob, table>>
        /\ tpc' = IF todo' = <<>> THEN "idle" ELSE "tick"
    BY DEF TickRead, runVars
  <1>3. PICK n \in 0..FreeSlots : todo' = SubSeq(DueList, 1, n)
    BY DEF TickRead
  <1>4. IsFiniteSet(Listed) /\ Cardinality(Listed) \in Nat /\ MaxConcurrent \in Nat
    BY FS_CardinalityType, LimitsAssumption DEF SlotInv, RoomInv
  <1>5. n \in Nat /\ (n > 0 => Cardinality(Listed) + n <= MaxConcurrent)
    BY <1>4 DEF FreeSlots
  <1>6. Len(todo') = n /\ \E S : todo' \in Seq(S)
    <2> DEFINE e == [i \in 1..n |-> DueList[i]]
               S == {DueList[i] : i \in 1..n}
    <2>1. SubSeq(DueList, 1, n) = e /\ Len(SubSeq(DueList, 1, n)) = n
      BY <1>5
    <2>2. e \in [1..n -> S]
      OBVIOUS
    <2>3. e \in Seq(S)
      BY <2>2, <1>5, SeqDef
    <2> QED BY <2>1, <2>3, <1>3
  <1>7. Picking' = Picking /\ Listed' = Listed /\ Busy' = Busy
    BY <1>2 DEF Picking, Listed, Busy
  <1>8. PickInv' /\ ListedInv'
    BY <1>1, <1>2, <1>7 DEF SlotInv, PickInv, ListedInv, Picks
  <1>9. RoomInv'
    <2>1. (\E r \in Busy' : src'[r] = "timer") => Cardinality(Listed) <= MaxConcurrent
      <3>1. todo = <<>> => Len(todo) = 0
        OBVIOUS
      <3> QED BY <1>1, <1>2, <1>4, <1>7, <3>1 DEF SlotInv, RoomInv
    <2>2. todo' # <<>> => n > 0
      BY <1>5, <1>6
    <2> QED BY <1>1, <1>4, <1>5, <1>6, <1>7, <2>1, <2>2 DEF SlotInv, RoomInv, Ceiling
  <1> QED BY <1>8, <1>9 DEF SlotInv

\* A job of the tick leaves the list; with its reservation the tick waits for
\* the row.
LEMMA TickNextSlots ==
  ASSUME RestInv, SlotInv, NEW j \in Jobs,
         TickRejected(j) \/ \E r \in Runs : TickReserve(j, r)
  PROVE  SlotInv'
  <1>1. tpc = "tick" /\ ~Picking /\ todo # <<>> /\ todo' = Tail(todo)
    BY DEF TickRejected, TickReserve
  <1>2. tpc' = tpc /\ table' = table
    BY DEF TickRejected, TickReserve, runVars
  <1>3. PICK S : todo \in Seq(S)
    BY DEF SlotInv, RoomInv
  <1>4. todo' \in Seq(S) /\ Len(todo) \in Nat /\ Len(todo) > 0 /\ Len(todo') = Len(todo) - 1
    BY <1>1, <1>3
  <1> DEFINE Only(r) == /\ \A s \in Runs \ {r} : pc'[s] = pc[s] /\ src'[s] = src[s]
                                                  /\ rjob'[s] = rjob[s]
                        /\ r \in Runs => pc[r] = "free" /\ pc'[r] = "pick" /\ src'[r] = "timer"
  <1>5. \E r \in Runs \cup {NoRun} : Only(r)
    <2>1. ASSUME TickRejected(j) PROVE Only(NoRun)
      BY <2>1, RunsAssumption DEF TickRejected, runVars
    <2>2. ASSUME NEW r \in Runs, TickReserve(j, r) PROVE Only(r)
      BY <2>2 DEF TickReserve, Reserve, Fresh, RestInv
    <2> QED BY <2>1, <2>2
  <1>6. PICK r \in Runs \cup {NoRun} : Only(r)
    BY <1>5
  <1>7. Busy' = Busy /\ Listed' = Listed
    BY <1>2, <1>6 DEF Busy, Listed
  <1>8. \A s \in Busy : s # r /\ src'[s] = src[s] /\ rjob'[s] = rjob[s]
    BY <1>6, RunsAssumption DEF Busy
  <1>9. ListedInv'
    BY <1>2, <1>7, <1>8 DEF SlotInv, ListedInv
  <1>10. PickInv'
    <2>1. \A s \in Runs : ~Picks(s)
      BY <1>1 DEF Picking, Picks
    <2>2. \A s \in Runs : Picks(s)' => s = r
      BY <2>1, <1>6 DEF Picks
    <2> QED BY <2>2, <1>1, <1>2, <1>6 DEF SlotInv, PickInv
  <1>11. RoomInv'
    <2>1. Cardinality(Listed) \in Nat /\ MaxConcurrent \in Nat
      BY FS_CardinalityType, LimitsAssumption DEF SlotInv, RoomInv
    <2>2. Cardinality(Listed) + Len(todo) <= MaxConcurrent
      BY <1>1, <1>4, <2>1 DEF SlotInv, RoomInv
    <2>3. Cardinality(Listed') + Len(todo') + (IF Picking' THEN 1 ELSE 0) <= MaxConcurrent
      BY <1>4, <1>7, <2>1, <2>2
    <2> QED BY <1>4, <1>7, <2>3 DEF SlotInv, RoomInv, Ceiling
  <1> QED BY <1>9, <1>10, <1>11 DEF SlotInv

\* A reservation that the timer has read back becomes the listed task of its
\* job; what was listed for the job has given its result, because two runs of
\* a job are not active together.
LEMMA PickedSlots ==
  ASSUME RestInv, LockInv, SlotInv, NEW r \in Runs, Picked(r)
  PROVE  SlotInv'
  <1>0. /\ pc[r] = "pick" /\ pc'[r] # "pick"
        /\ \A s \in Runs \ {r} : pc'[s] = pc[s]
        /\ UNCHANGED <<rjob, src, todo, tpc>>
    BY DEF Picked, Begin, RestInv, timerVars
  <1>1. \A s \in Runs : (Picks(s)' => Picks(s)) /\ ~(Picks(s)' /\ s = r)
    BY <1>0 DEF Picks
  <1>2. CASE ~(src[r] = "timer" /\ Exists(rjob[r]))
    <2>1. table' = table
      BY <1>2 DEF Picked
    <2>2. Listed' = Listed
      BY <2>1 DEF Listed
    <2>3. r \notin Busy'
      <3>1. CASE src[r] = "timer"
        BY <1>2, <3>1 DEF Picked, RestInv, Busy
      <3>2. CASE src[r] # "timer"
        BY <1>0, <3>2 DEF SlotInv, PickInv, RestInv, Busy
      <3> QED BY <3>1, <3>2
    <2>4. \A s \in Busy' : s \in Busy /\ src'[s] = src[s] /\ table'[rjob'[s]] = s
      BY <1>0, <2>1, <2>3 DEF SlotInv, ListedInv, Busy
    <2>5. tpc' # "tick" => todo' = <<>> /\ ~Picking'
      BY <1>0, <1>1 DEF SlotInv, PickInv, Picking, Picks
    <2>6. \A s \in Runs : pc'[s] = "pick" => src'[s] # "startup" /\ (Picks(s)' => Picks(s))
      BY <1>0, <1>1 DEF SlotInv, PickInv
    <2> QED BY <1>0, <2>2, <2>4, <2>5, <2>6, SlotKeeps
  <1>3. CASE src[r] = "timer" /\ Exists(rjob[r])
    <2>1. table' = [table EXCEPT ![rjob[r]] = r] /\ rjob[r] \in Jobs
      BY <1>3 DEF Picked, RestInv
    <2>2. Picks(r) /\ Picking /\ ~Picking'
      BY <1>0, <1>1, <1>3 DEF Picks, Picking, SlotInv, PickInv
    <2>3. Listed' = Listed \cup {rjob[r]}
      BY <2>1, RunsAssumption DEF Listed, RestInv
    <2>4. PickInv'
      BY <1>0, <1>1, <2>2 DEF SlotInv, PickInv
    <2>5. ListedInv'
      <3> SUFFICES ASSUME NEW s \in Busy' PROVE table'[rjob'[s]] = s
        BY DEF ListedInv
      <3>1. CASE s = r
        BY <1>0, <2>1, <3>1 DEF RestInv
      <3>2. CASE s # r
        <4>1. s \in Busy /\ s \in Runs /\ Active(s) /\ Active(r)
          BY <1>0, <3>2 DEF Busy, Active
        <4>2. rjob[s] # rjob[r] /\ rjob[s] \in Jobs
          BY <4>1, <3>2 DEF LockInv, OneRunPerJob, RestInv
        <4> QED BY <1>0, <2>1, <4>1, <4>2 DEF SlotInv, ListedInv, RestInv
      <3> QED BY <3>1, <3>2
    <2>6. RoomInv'
      <3>1. IsFiniteSet(Listed) /\ Cardinality(Listed) \in Nat
        BY FS_CardinalityType DEF SlotInv, RoomInv
      <3>2. IsFiniteSet(Listed') /\ Cardinality(Listed') \in Nat
            /\ Cardinality(Listed') <= Cardinality(Listed) + 1
        <4>1. /\ IsFiniteSet(Listed \cup {rjob[r]})
              /\ Cardinality(Listed \cup {rjob[r]}) =
                   IF rjob[r] \in Listed THEN Cardinality(Listed) ELSE Cardinality(Listed) + 1
          BY <3>1, FS_AddElement
        <4> QED BY <2>3, <3>1, <4>1
      <3>3. PICK S : todo \in Seq(S)
        BY DEF SlotInv, RoomInv
      <3>4. Len(todo) \in Nat /\ MaxConcurrent \in Nat /\ MaxCatchup \in Nat
        BY <3>3, LimitsAssumption
      <3>5. Cardinality(Listed) + Len(todo) + 1 <= MaxConcurrent
        BY <2>2 DEF SlotInv, RoomInv
      <3>6. Cardinality(Listed') + Len(todo) <= MaxConcurrent
        BY <3>1, <3>2, <3>4, <3>5
      <3>7. Cardinality(Listed') <= Ceiling
        BY <3>2, <3>4, <3>6 DEF Ceiling
      <3> QED BY <1>0, <2>2, <3>2, <3>3, <3>4, <3>6, <3>7 DEF RoomInv, Ceiling
    <2> QED BY <2>4, <2>5, <2>6 DEF SlotInv
  <1> QED BY <1>2, <1>3

\* Catch-up takes the first of the missed jobs, at most max_catchup.
LEMMA CatchUpTakes ==
  /\ IsFiniteSet(MissedAt(1, MaxCatchup))
  /\ Cardinality(MissedAt(1, MaxCatchup)) <= MaxCatchup
  <1> DEFINE D == {i \in 1..MaxCatchup : i <= Len(Missed) /\ Missed[i] \in Jobs}
             M == MissedAt(1, MaxCatchup)
             f == [i \in D |-> Missed[i]]
  <1>1. IsFiniteSet(1..MaxCatchup) /\ Cardinality(1..MaxCatchup) = MaxCatchup /\ MaxCatchup \in Nat
    BY FS_Interval, LimitsAssumption
  <1>2. IsFiniteSet(D) /\ Cardinality(D) <= MaxCatchup
    BY <1>1, FS_Subset
  <1>3. \A j \in M : \E i \in D : f[i] = j
    BY DEF MissedAt
  <1>4. f \in [D -> M]
    BY DEF MissedAt
  <1> HIDE DEF f, D, M
  <1>5. f \in Surjection(D, M)
    BY <1>3, <1>4 DEF Surjection
  <1>6. IsFiniteSet(M) /\ Cardinality(M) <= Cardinality(D)
    BY <1>2, <1>5, FS_Surjection
  <1>7. Cardinality(M) <= MaxCatchup
    BY <1>1, <1>2, <1>6, FS_CardinalityType
  <1> QED BY <1>6, <1>7 DEF M

\* Catch-up begins with an empty table and lists the runs it starts.
LEMMA CatchUpSlots ==
  ASSUME RestInv, RowsInv, LockInv, SlotInv, CatchUp
  PROVE  SlotInv'
  <1>0. tpc = "recovered" /\ tpc' = "idle" /\ todo' = todo /\ todo = <<>>
    BY DEF CatchUp, SlotInv, PickInv
  <1>1. \A r \in Runs : pc[r] = "free"
    BY <1>0 DEF LockInv, DownInv, Up
  <1>2. PICK T \in SUBSET Jobs : \E f \in [T -> Runs] :
          /\ T \subseteq MissedAt(1, MaxCatchup)
          /\ \A j \in T : pc'[f[j]] = "stagger" /\ rjob'[f[j]] = j /\ src'[f[j]] = "startup"
          /\ \A r \in Runs : (\A j \in T : f[j] # r) => pc'[r] = pc[r]
          /\ \A j \in Jobs : table'[j] = IF j \in T THEN f[j] ELSE NoRun
    BY CatchUpStep
  <1>3. \A r \in Runs : pc'[r] # "free" =>
          pc'[r] = "stagger" /\ src'[r] = "startup" /\ table'[rjob'[r]] = r
    BY <1>1, <1>2
  <1>4. PickInv' /\ ListedInv'
    BY <1>0, <1>3 DEF PickInv, Picks, Picking, ListedInv, Busy
  <1>5. Listed' \subseteq MissedAt(1, MaxCatchup)
    BY <1>2 DEF Listed
  <1>6. IsFiniteSet(Listed') /\ Cardinality(Listed') <= MaxCatchup
    BY <1>5, CatchUpTakes, FS_Subset, FS_CardinalityType, LimitsAssumption
  <1>7. Cardinality(Listed') <= Ceiling'
    BY <1>6, FS_CardinalityType, LimitsAssumption DEF Ceiling
  <1>8. ~Picking' /\ \A r \in Busy' : src'[r] # "timer"
    BY <1>3 DEF Picking, Busy
  <1>9. RoomInv'
    BY <1>0, <1>6, <1>7, <1>8 DEF SlotInv, RoomInv
  <1> QED BY <1>4, <1>9 DEF SlotInv

\* A step of run r after its reservation was read back: nothing becomes busy but
\* what waited to begin, and at most r leaves the table.
LEMMA RunSlots ==
  ASSUME RestInv, SlotInv, NEW r \in Runs,
         UNCHANGED <<rjob, src, todo, tpc>>,
         pc[r] # "pick", pc'[r] # "pick",
         r \in Busy' => r \in Busy,
         \A s \in Runs \ {r} : pc'[s] = pc[s],
         \/ table' = table
         \/ r \notin Busy' /\ table' = [table EXCEPT ![rjob[r]] = IF @ = r THEN NoRun ELSE @]
  PROVE  SlotInv'
  <1>1. \A s \in Runs : (pc'[s] = "pick" <=> pc[s] = "pick") /\ (Picks(s)' <=> Picks(s))
    BY DEF Picks
  <1>2. \A s \in Busy' : s \in Busy /\ src'[s] = src[s] /\ table'[rjob'[s]] = s
    <2>1. \A s \in Busy' : s \in Busy /\ s \in Runs
      BY DEF Busy
    <2> QED BY <2>1 DEF SlotInv, ListedInv, RestInv
  <1>3. Listed' \subseteq Listed
    BY RunsAssumption DEF Listed, RestInv
  <1>4. \A s \in Runs : pc'[s] = "pick" => src'[s] # "startup"
    BY <1>1 DEF SlotInv, PickInv
  <1>5. tpc' # "tick" => todo' = <<>> /\ ~Picking'
    BY <1>1 DEF SlotInv, PickInv, Picking, Picks
  <1> QED BY <1>1, <1>2, <1>3, <1>4, <1>5, SlotKeeps

\* A step that touches neither runs nor the tick keeps the slots.
LEMMA SlotsUntouched ==
  ASSUME SlotInv, UNCHANGED <<pc, rjob, src, table, todo, tpc>>
  PROVE  SlotInv'
  <1>1. Picking' = Picking /\ Listed' = Listed /\ Busy' = Busy /\ \A r \in Runs : Picks(r)' = Picks(r)
    BY DEF Picking, Listed, Busy, Picks
  <1> QED BY <1>1 DEF SlotInv, PickInv, ListedInv, RoomInv, Ceiling

\* Without rewriting operations every step keeps the slots.
LEMMA SlotStep ==
  ASSUME RestInv, RowsInv, LockInv, SlotInv, [Next]_vars
  PROVE  SlotInv'
  <1>1. CASE TimerStep
    <2>1. CASE TickEnd
      <3>1. UNCHANGED <<pc, rjob, src, table, todo>> /\ todo = <<>> /\ ~Picking
        BY <2>1 DEF TickEnd, runVars
      <3>2. Listed' = Listed /\ Busy' = Busy /\ Picking' = Picking
            /\ \A r \in Runs : Picks(r)' = Picks(r)
        BY <3>1 DEF Listed, Busy, Picking, Picks
      <3> QED BY <3>1, <3>2 DEF SlotInv, PickInv, ListedInv, RoomInv, Ceiling
    <2> QED BY <1>1, <2>1, TickReadSlots, TickNextSlots DEF TimerStep
  <1>2. CASE Recover
    <2>1. UNCHANGED <<pc, rjob, src, table, todo>> /\ todo = <<>> /\ ~Picking
      BY <1>2 DEF Recover, runVars, SlotInv, PickInv
    <2>2. Listed' = Listed /\ Busy' = Busy /\ Picking' = Picking
          /\ \A r \in Runs : Picks(r)' = Picks(r)
      BY <2>1 DEF Listed, Busy, Picking, Picks
    <2> QED BY <2>1, <2>2 DEF SlotInv, PickInv, ListedInv, RoomInv, Ceiling
  <1>3. CASE CatchUp
    BY <1>3, CatchUpSlots
  <1>4. CASE Stop
    <2>1. /\ todo' = <<>> /\ UNCHANGED <<rjob, src, table>>
          /\ \A r \in Runs : pc'[r] = IF pc[r] = "pick" /\ src[r] = "timer" THEN "free"
                                      ELSE IF \E j \in Jobs : table[j] = r THEN "release" ELSE pc[r]
      BY <1>4 DEF Stop
    <2>2. \A r \in Runs : pc'[r] = "pick" => src'[r] # "startup" /\ ~Picks(r)'
      BY <2>1 DEF SlotInv, PickInv, Picks
    <2>3. \A r \in Busy' : r \in Busy /\ src'[r] = src[r] /\ table'[rjob'[r]] = r
      BY <2>1 DEF Busy, SlotInv, ListedInv
    <2>4. Listed' = Listed /\ ~Picking'
      BY <2>1, <2>2 DEF Listed, Picking, Picks
    <2> QED BY <2>1, <2>2, <2>3, <2>4, SlotKeeps
  <1>5. CASE Crash
    <2>1. todo' = <<>> /\ (\A r \in Runs : pc'[r] = "free") /\ \A j \in Jobs : table'[j] = NoRun
      BY <1>5 DEF Crash
    <2>2. Busy' = {} /\ Listed' = {} /\ ~Picking'
      BY <2>1 DEF Busy, Listed, Picking
    <2> QED BY <2>1, <2>2, SlotKeeps
  <1>6. ASSUME NEW r \in Runs, RunStep(r) PROVE SlotInv'
    <2>1. CASE Picked(r)
      BY <2>1, PickedSlots
    <2>2. CASE StaggerEnds(r)
      <3>1. /\ pc[r] = "stagger" /\ pc'[r] \in {"apply", "exec"}
            /\ \A s \in Runs \ {r} : pc'[s] = pc[s]
            /\ UNCHANGED <<rjob, src, table, todo, tpc>>
        BY <2>2 DEF StaggerEnds, Begin, RestInv, timerVars
      <3> QED BY <3>1, RunSlots DEF Busy
    <2>3. ASSUME \/ \E o \in Outcomes : ExecEnds(r, o)
                 \/ Record(r) \/ ApplyRead(r) \/ ApplySave(r)
                 \/ ReleaseRead(r) /\ Owns(r)
          PROVE  SlotInv'
      <3>1. /\ pc[r] # "pick" /\ pc'[r] \notin {"pick", "stagger", "exec"}
            /\ \A s \in Runs \ {r} : pc'[s] = pc[s]
            /\ UNCHANGED <<rjob, src, table, todo, tpc>>
        BY <2>3 DEF ExecEnds, Record, ApplyRead, ApplySave, ReleaseRead, Onward, RestInv, timerVars
      <3> QED BY <3>1, RunSlots DEF Busy
    <2>4. ASSUME Notified(r) \/ (ReleaseRead(r) /\ ~Owns(r)) \/ ReleaseSave(r) PROVE SlotInv'
      <3>1. /\ pc[r] # "pick" /\ pc'[r] = "free"
            /\ \A s \in Runs \ {r} : pc'[s] = pc[s]
            /\ table' = [table EXCEPT ![rjob[r]] = IF @ = r THEN NoRun ELSE @]
            /\ UNCHANGED <<rjob, src, todo, tpc>>
        BY <2>4 DEF Notified, ReleaseRead, ReleaseSave, Finish, RestInv, timerVars
      <3>2. r \notin Busy'
        BY <3>1 DEF Busy
      <3> QED BY <3>1, <3>2, RunSlots
    <2> QED BY <1>6, <2>1, <2>2, <2>3, <2>4 DEF RunStep
  <1>7. ASSUME NEW j \in Jobs, Add(j) \/ Elapse(j) PROVE SlotInv'
    BY <1>7, SlotsUntouched DEF Add, Elapse, runVars, timerVars
  <1>8. ASSUME NEW j \in Jobs, NEW r \in Runs, RunNow(j, r) PROVE SlotInv'
    <2>1. /\ pc[r] = "free" /\ pc'[r] = "pick" /\ src'[r] = "manual"
          /\ \A s \in Runs \ {r} : pc'[s] = pc[s] /\ src'[s] = src[s] /\ rjob'[s] = rjob[s]
          /\ UNCHANGED <<table, todo, tpc>>
      BY <1>8 DEF RunNow, Reserve, Fresh, RestInv, timerVars
    <2>2. \A s \in Busy' : s \in Busy /\ src'[s] = src[s] /\ table'[rjob'[s]] = s
      BY <2>1 DEF Busy, SlotInv, ListedInv
    <2>3. \A s \in Runs : pc'[s] = "pick" => src'[s] # "startup" /\ (Picks(s)' => Picks(s))
      BY <2>1 DEF Picks, SlotInv, PickInv
    <2>4. (tpc' # "tick" => todo' = <<>> /\ ~Picking') /\ Listed' = Listed
      BY <2>1 DEF SlotInv, PickInv, Picking, Listed
    <2> QED BY <2>1, <2>2, <2>3, <2>4, SlotKeeps
  <1>9. ASSUME NEW c \in Clients, ClientStep(c) PROVE SlotInv'
    BY <1>9, SlotsUntouched
    DEF ClientStep, Get, PauseSave, ResumeSave, UpdateSave, RemoveDelete, Put, runVars, timerVars
  <1>10. CASE UNCHANGED vars
    BY <1>10, SlotsUntouched DEF vars, runVars, timerVars
  <1> QED BY <1>1, <1>2, <1>3, <1>4, <1>5, <1>6, <1>7, <1>8, <1>9, <1>10 DEF Next

\* Burst protection, for any jobs, runs and limits and over crashes, restarts
\* and stops: catch-up starts at most max_catchup runs, and while a run of the
\* tick loop executes, all scheduled runs together fit max_concurrent (_tick and
\* startup_catchup), as long as clients only add, delete and run jobs.  The tick
\* counts _running before it reserves, so the bound needs that the table misses
\* no run, which it would with two runs of one job.
THEOREM BurstsStayBounded ==
  ASSUME Rewrites = {}
  PROVE  Spec => []ConcurrencyBound
  <1>1. Init => SlotInv
    <2> SUFFICES ASSUME Init PROVE SlotInv
      OBVIOUS
    <2>1. todo = <<>> /\ Listed = {} /\ Busy = {} /\ ~Picking
      BY DEF Init, Listed, Busy, Picking
    <2>2. IsFiniteSet(Listed) /\ Cardinality(Listed) = 0
      BY <2>1, FS_EmptySet
    <2>3. todo \in Seq({}) /\ 0 <= Ceiling
      BY <2>1, LimitsAssumption DEF Ceiling
    <2> QED BY <2>1, <2>2, <2>3 DEF Init, SlotInv, PickInv, ListedInv, RoomInv, Picks
  <1>2. RestInv /\ RowsInv /\ LockInv /\ SlotInv /\ [Next]_vars => SlotInv'
    BY SlotStep
  <1>3. RestInv /\ SlotInv => ConcurrencyBound
    <2> SUFFICES ASSUME RestInv, SlotInv PROVE ConcurrencyBound
      OBVIOUS
    <2>1. /\ Cardinality(Busy) \in Nat /\ Cardinality(Listed) \in Nat
          /\ Cardinality(Busy) <= Cardinality(Listed)
      BY BusyListed, FS_CardinalityType DEF SlotInv, RoomInv
    <2>2. Cardinality(Busy) <= Ceiling
      BY <2>1, LimitsAssumption DEF SlotInv, RoomInv, Ceiling
    <2>3. ASSUME \E r \in Busy : src[r] = "timer" PROVE Cardinality(Busy) <= MaxConcurrent
      <3>1. PICK S : todo \in Seq(S)
        BY DEF SlotInv, RoomInv
      <3>2. Len(todo) \in Nat /\ MaxConcurrent \in Nat
        BY <3>1, LimitsAssumption
      <3>3. Cardinality(Listed) + Len(todo) + (IF Picking THEN 1 ELSE 0) <= MaxConcurrent
        BY <2>3 DEF SlotInv, RoomInv
      <3> QED BY <2>1, <3>2, <3>3
    <2> QED BY <2>2, <2>3 DEF ConcurrencyBound, Ceiling
  <1> QED BY <1>1, <1>2, <1>3, TypeInvariance, LockInvariance, PTL DEF Spec

============================================================================
