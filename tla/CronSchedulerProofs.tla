------------------------ MODULE CronSchedulerProofs ------------------------
(***************************************************************************)
(* Proofs about CronScheduler, for any jobs, runs, clients and limits.     *)
(*                                                                         *)
(* TypeCorrect holds for every set of client operations: all rows, also    *)
(* the stale ones that coroutines hold, are sound (Sound), which is what   *)
(* bounds the error counter.                                               *)
(*                                                                         *)
(* ExclusiveRuns and ReservationsOwned hold while no operation rewrites a  *)
(* row it read earlier (Rewrites = {}): the persisted token is then a      *)
(* lock.  The runs with pause and update show that the condition is needed.*)
(***************************************************************************)
EXTENDS CronScheduler, TLAPS

\* A row that may be run, or that a run holds, has an error to spare; a
\* missing row holds no token.
Sound(row) ==
  /\ row \in Row
  /\ row.status \in {"pending", "running"} \/ row.token # NoRun => row.errs < MaxErrors
  /\ row.status = "absent" => row.token = NoRun

\* A run about to write back holds a row that its own token is in.
SnapInv ==
  \A r \in Runs : pc[r] \in {"save", "rsave"} => snap[r].token = r

\* The rows and the copies of rows that coroutines hold.
RowsInv ==
  /\ rows \in [Jobs -> Row] /\ \A j \in Jobs : Sound(rows[j])
  /\ snap \in [Runs -> Row] /\ \A r \in Runs : Sound(snap[r])
  /\ csnap \in [Clients -> Row] /\ \A c \in Clients : Sound(csnap[c])
  /\ SnapInv

\* The other variables; a process that ended can be started again.
RestInv ==
  /\ created \subseteq Jobs
  /\ pc \in [Runs -> {"free", "pick", "stagger", "exec", "record", "apply", "save",
                      "notify", "release", "rsave"}]
  /\ rjob \in [Runs -> Jobs]
  /\ src \in [Runs -> {"timer", "startup", "manual"}]
  /\ res \in [Runs -> {"none", "missing", "ok", "transient", "permanent"}]
  /\ table \in [Jobs -> Runs \cup {NoRun}]
  /\ tpc \in {"down", "recovered", "idle", "tick", "stopped"}
  /\ skip \subseteq Jobs
  /\ boots \in 0..MaxBoots
  /\ tpc \in {"down", "stopped"} => boots < MaxBoots
  /\ cop \in [Clients -> {"none", "pause", "resume", "update", "remove"}]
  /\ cjob \in [Clients -> Jobs]
  /\ streak \in [Jobs -> 0..MaxErrors + 1]
  /\ won \subseteq Jobs

\* An active run is named in its row as long as there is one.
OwnInv ==
  \A r \in Runs : Active(r) => ~Exists(rjob[r]) \/ rows[rjob[r]].token = r

\* Ids are handed out before they are used.
CreatedInv ==
  /\ \A j \in Jobs : Exists(j) => j \in created
  /\ \A r \in Runs : Active(r) => rjob[r] \in created

\* Before the timer is up nothing runs, and recovered rows are released.
DownInv ==
  /\ ~Up => \A r \in Runs : pc[r] = "free"
  /\ ~Up => \A c \in Clients : cop[c] = "none"
  /\ tpc = "recovered" =>
       \A j \in Jobs : rows[j].token = NoRun /\ rows[j].status # "running"

\* No client rewrites a row.
ClientInv == \A c \in Clients : cop[c] \in {"none", "remove"}

LockInv == OneRunPerJob /\ OwnInv /\ CreatedInv /\ DownInv /\ ClientInv /\ ReservationOwned

Rewrites == Ops \cap {"pause", "resume", "update"}

----------------------------------------------------------------------------
(* What the operators on rows do *)

\* The empty row is sound.
LEMMA NoRowSound == Sound(NoRow)
  BY LimitsAssumption, RunsAssumption DEF Sound, Row, NoRow, Statuses

\* Applying the result of a run to a row the run holds yields a sound row that
\* holds no token and is not RUNNING, and needs no token cleared elsewhere.
LEMMA AppliedSound ==
  ASSUME NEW row, Sound(row), row.token # NoRun,
         NEW o \in {"none", "missing", "ok", "transient", "permanent"}, NEW bad \in BOOLEAN
  PROVE  /\ Sound(Applied(row, o, bad))
         /\ Applied(row, o, bad).token = NoRun
         /\ Applied(row, o, bad).status # "running"
  <1> DEFINE Good(x) == Sound(x) /\ x.token = NoRun /\ x.status # "running"
  <1>a. row \in Row /\ row.token \in Runs
    BY DEF Sound, Row
  <1>b. /\ row.errs + 1 \in 0..MaxErrors /\ 0 \in 0..MaxErrors /\ 0 + 1 \in 0..MaxErrors
        /\ 0 < MaxErrors /\ MaxRetries <= MaxErrors /\ MaxErrors \in Nat /\ MaxRetries \in Nat
    BY LimitsAssumption DEF Sound, Row
  <1> USE <1>a, <1>b, RunsAssumption DEF Sound, Row, Statuses
  <1>1. Good(AfterMissing(row))
    BY DEF AfterMissing, Failed, Cleared
  <1>2. row.status \in {"paused", "disabled"} => Good(Cleared(row))
    BY DEF Cleared
  <1>3. Good(AfterSuccess(row, bad))
    <2>1. CASE row.kind = "at"
      BY <2>1, NoRowSound DEF AfterSuccess, OneShotDone, Cleared, NoRow
    <2>2. CASE row.kind # "at" /\ bad
      BY <2>2 DEF AfterSuccess, Failed, Cleared
    <2>3. CASE row.kind # "at" /\ ~bad
      BY <2>3 DEF AfterSuccess, Cleared
    <2> QED BY <2>1, <2>2, <2>3
  <1>4. Good(AfterFailure(row, bad))
    <2> DEFINE e == [row EXCEPT !.errs = @ + 1]
    <2>0. e \in Row /\ e.errs = row.errs + 1 /\ e.kind = row.kind /\ e.token = row.token
      OBVIOUS
    <2> DEFINE retry == [Cleared(e) EXCEPT !.status = "pending", !.backoff = TRUE]
    <2>1. CASE Exhausted(e)
      <3>1. Good([Cleared(e) EXCEPT !.status = "disabled", !.enabled = FALSE])
        BY <2>0 DEF Cleared
      <3>2. Good(Failed(e))
        BY <2>0 DEF Failed, Cleared
      <3> QED BY <2>1, <3>1, <3>2 DEF AfterFailure
    <2>2. CASE ~Exhausted(e)
      <3>1. e.errs < MaxErrors
        BY <2>0, <2>2 DEF Exhausted
      <3>2. Good(retry) /\ Good([retry EXCEPT !.next = "future"])
        BY <2>0, <3>1 DEF Cleared
      <3>3. Good(Failed(e))
        BY <2>0 DEF Failed, Cleared
      <3> QED BY <2>2, <3>2, <3>3 DEF AfterFailure
    <2> QED BY <2>1, <2>2
  <1>5. Good([Cleared(row) EXCEPT !.errs = @ + 1, !.status = "disabled",
                                  !.enabled = FALSE, !.next = "none", !.backoff = FALSE])
    BY DEF Cleared
  <1> HIDE DEF Good, Sound
  <1> QED
    <2>1. Good(Applied(row, o, bad))
      BY <1>1, <1>2, <1>3, <1>4, <1>5 DEF Applied
    <2> QED BY <2>1 DEF Good

\* Releasing a row that holds a token does the same.
LEMMA ReleasedSound ==
  ASSUME NEW row, Sound(row), row.token # NoRun
  PROVE  /\ Sound(Released(row))
         /\ Released(row).token = NoRun
         /\ Released(row).status # "running"
  BY RunsAssumption DEF Sound, Row, Statuses, Released, Cleared

\* Recovery yields a sound row that is not RUNNING.
LEMMA RecoveredSound ==
  ASSUME NEW row, Sound(row)
  PROVE  /\ Sound(RecoveredRow(row))
         /\ RecoveredRow(row).token = NoRun
         /\ RecoveredRow(row).status # "running"
         /\ RecoveredRow(row).status = "absent" <=> row.status = "absent"
  BY RunsAssumption DEF Sound, Row, Statuses, RecoveredRow, Cleared

\* A reserved row is sound, RUNNING and holds the token.
LEMMA ReservedSound ==
  ASSUME NEW row, Sound(row), NEW due \in BOOLEAN, Reservable(row, due), NEW r \in Runs
  PROVE  /\ Sound(ReservedBy(row, r))
         /\ ReservedBy(row, r).token = r
         /\ ReservedBy(row, r).status = "running"
  BY RunsAssumption DEF Sound, Row, Statuses, ReservedBy, Reservable

\* What the client operations write is sound when what they read was.
LEMMA RewrittenSound ==
  ASSUME NEW row, Sound(row)
  PROVE  /\ Sound([row EXCEPT !.status = "paused"])
         /\ Sound([row EXCEPT !.status = "pending", !.enabled = TRUE, !.backoff = FALSE,
                              !.errs = 0, !.next = IF row.kind = "at" THEN @ ELSE "future"])
         /\ \A on \in BOOLEAN : Sound([row EXCEPT !.enabled = on])
         /\ \A on \in BOOLEAN, k \in {"at", "recurring"}, past \in BOOLEAN :
              Sound([row EXCEPT !.enabled = on, !.kind = k,
                                !.next = IF past THEN "due" ELSE "future"])
  <1>1. 0 \in 0..MaxErrors /\ 0 < MaxErrors
    BY LimitsAssumption
  <1> USE <1>1, RunsAssumption DEF Sound, Row, Statuses
  <1>2. Sound([row EXCEPT !.status = "paused"])
    OBVIOUS
  <1>3. Sound([row EXCEPT !.status = "pending", !.enabled = TRUE, !.backoff = FALSE,
                          !.errs = 0, !.next = IF row.kind = "at" THEN @ ELSE "future"])
    <2>1. CASE row.kind = "at"
      BY <2>1
    <2>2. CASE row.kind # "at"
      BY <2>2
    <2> QED BY <2>1, <2>2
  <1>4. \A on \in BOOLEAN : Sound([row EXCEPT !.enabled = on])
    OBVIOUS
  <1>5. ASSUME NEW on \in BOOLEAN, NEW k \in {"at", "recurring"}, NEW past \in BOOLEAN
        PROVE  Sound([row EXCEPT !.enabled = on, !.kind = k,
                                 !.next = IF past THEN "due" ELSE "future"])
    <2>1. CASE past
      BY <2>1
    <2>2. CASE ~past
      BY <2>2
    <2> QED BY <2>1, <2>2
  <1> HIDE DEF Sound, Row
  <1> QED BY <1>2, <1>3, <1>4, <1>5

\* A new row is sound.
LEMMA AddedSound ==
  ASSUME NEW on \in BOOLEAN, NEW k \in {"at", "recurring"}, NEW past \in BOOLEAN
  PROVE  LET row == [NoRow EXCEPT !.status = IF on THEN "pending" ELSE "paused",
                                  !.enabled = on, !.kind = k, !.once = k = "at",
                                  !.next = IF past THEN "due" ELSE "future"]
         IN  Sound(row) /\ row.token = NoRun /\ row.status # "running"
  <1>1. 0 \in 0..MaxErrors /\ 0 < MaxErrors
    BY LimitsAssumption
  <1> QED BY <1>1, RunsAssumption DEF Sound, Row, NoRow, Statuses

\* Time keeps a row sound and leaves its status and token alone.
LEMMA ElapsedSound ==
  ASSUME NEW row, Sound(row)
  PROVE  \A new \in {[row EXCEPT !.next = "due"], [row EXCEPT !.backoff = FALSE],
                     [row EXCEPT !.recent = FALSE], [row EXCEPT !.next = "future"]} :
           Sound(new) /\ new.token = row.token /\ new.status = row.status
  BY DEF Sound, Row, Statuses

----------------------------------------------------------------------------
(* Type correctness *)

\* An empty scheduler satisfies both parts of the invariant.
LEMMA TypeInit == Init => RowsInv /\ RestInv
  <1> SUFFICES ASSUME Init PROVE RowsInv /\ RestInv
    OBVIOUS
  <1>1. NoRow \in Row
    BY NoRowSound DEF Sound
  <1>2. RowsInv
    BY <1>1, NoRowSound DEF Init, RowsInv, SnapInv
  <1>3. RestInv
    BY LimitsAssumption DEF Init, RestInv
  <1> QED BY <1>2, <1>3

\* Every step keeps the run table, the timer, the clients and the history typed.
LEMMA RestStep ==
  ASSUME RestInv, [Next]_vars
  PROVE  RestInv'
  <1> USE LimitsAssumption, ChoicesAssumption DEF RestInv
  <1>1. CASE TimerStep
    <2>1. CASE TickRead
      BY <2>1 DEF TickRead, rowVars, runVars, clientVars, history
    <2>2. CASE TickEnd \/ \E j \in Jobs : TickRejected(j)
      BY <2>2 DEF TickEnd, TickRejected, rowVars, runVars, clientVars, history
    <2>3. ASSUME NEW j \in Jobs, NEW r \in Runs, TickReserve(j, r) PROVE RestInv'
      BY <2>3 DEF TickReserve, Reserve, clientVars, history
    <2> QED BY <1>1, <2>1, <2>2, <2>3 DEF TimerStep
  <1>2. CASE Recover
    BY <1>2 DEF Recover, runVars, clientVars, history
  <1>3. CASE CatchUp
    <2> DEFINE taken == {j \in MissedAt(1, MaxCatchup) : Reservable(rows[j], TRUE)}
    <2>0. taken \subseteq Jobs
      BY DEF MissedAt
    <2>1. PICK f \in [taken -> {r \in Runs : Fresh(r)}] :
            /\ table' = [j \in Jobs |-> IF j \in taken THEN f[j] ELSE NoRun]
            /\ pc' = [r \in Runs |-> IF \E j \in taken : f[j] = r THEN "stagger" ELSE pc[r]]
            /\ rjob' = [r \in Runs |-> IF \E j \in taken : f[j] = r
                                       THEN CHOOSE j \in taken : f[j] = r ELSE rjob[r]]
            /\ src' = [r \in Runs |-> IF \E j \in taken : f[j] = r THEN "startup" ELSE src[r]]
      BY <1>3 DEF CatchUp
    <2> HIDE DEF taken
    <2>2. table' \in [Jobs -> Runs \cup {NoRun}]
      BY <2>1
    <2>3. rjob' \in [Runs -> Jobs]
      BY <2>0, <2>1
    <2>4. /\ pc' \in [Runs -> {"free", "pick", "stagger", "exec", "record", "apply", "save",
                               "notify", "release", "rsave"}]
          /\ src' \in [Runs -> {"timer", "startup", "manual"}]
      BY <2>1
    <2> QED BY <1>3, <2>2, <2>3, <2>4 DEF CatchUp, clientVars, history
  <1>4. CASE Stop
    BY <1>4 DEF Stop, Forget, rowVars, clientVars, history
  <1>5. CASE Crash
    BY <1>5 DEF Crash, Forget, Up, rowVars, history
  <1>6. ASSUME NEW r \in Runs, RunStep(r) PROVE RestInv'
    <2>1. CASE Picked(r)
      BY <2>1 DEF Picked, Begin, rowVars, timerVars, clientVars, history
    <2>2. CASE StaggerEnds(r)
      BY <2>2 DEF StaggerEnds, Begin, rowVars, timerVars, clientVars, history
    <2>3. ASSUME NEW o \in Outcomes, ExecEnds(r, o) PROVE RestInv'
      BY <2>3 DEF ExecEnds, rowVars, timerVars, clientVars, history
    <2>4. CASE Record(r)
      BY <2>4 DEF Record, rowVars, timerVars, clientVars
    <2>5. CASE ApplyRead(r)
      BY <2>5 DEF ApplyRead, Onward, rowVars, timerVars, clientVars, history
    <2>6. CASE ApplySave(r)
      BY <2>6 DEF ApplySave, Onward, timerVars, clientVars, history
    <2>7. CASE Notified(r)
      BY <2>7 DEF Notified, Finish, rowVars, timerVars, clientVars, history
    <2>8. CASE ReleaseRead(r)
      BY <2>8 DEF ReleaseRead, Finish, rowVars, timerVars, clientVars, history
    <2>9. CASE ReleaseSave(r)
      BY <2>9 DEF ReleaseSave, Finish, timerVars, clientVars, history
    <2> QED BY <1>6, <2>1, <2>2, <2>3, <2>4, <2>5, <2>6, <2>7, <2>8, <2>9 DEF RunStep
  <1>7. ASSUME NEW j \in Jobs, Add(j) PROVE RestInv'
    BY <1>7 DEF Add, runVars, timerVars, clientVars, history
  <1>8. ASSUME NEW j \in Jobs, Elapse(j) PROVE RestInv'
    BY <1>8 DEF Elapse, runVars, timerVars, clientVars, history
  <1>9. ASSUME NEW j \in Jobs, NEW r \in Runs, RunNow(j, r) PROVE RestInv'
    BY <1>9 DEF RunNow, Reserve, timerVars, clientVars, history
  <1>10. ASSUME NEW c \in Clients, ClientStep(c) PROVE RestInv'
    <2>1. ASSUME NEW op \in Ops, NEW j \in Jobs, Get(c, op, j) PROVE RestInv'
      BY <2>1 DEF Get, rowVars, runVars, timerVars, history
    <2>2. CASE PauseSave(c) \/ ResumeSave(c) \/ UpdateSave(c) \/ RemoveDelete(c)
      <3>0. 0 \in 0..MaxErrors + 1
        OBVIOUS
      <3>1. streak' \in [Jobs -> 0..MaxErrors + 1]
        <4>1. CASE ResumeSave(c)
          BY <3>0, <4>1 DEF ResumeSave
        <4>2. CASE PauseSave(c) \/ UpdateSave(c) \/ RemoveDelete(c)
          BY <4>2 DEF PauseSave, UpdateSave, RemoveDelete
        <4> QED BY <2>2, <4>1, <4>2
      <3>2. \E row : Put(c, row)
        BY <2>2 DEF PauseSave, ResumeSave, UpdateSave, RemoveDelete
      <3> QED BY <3>1, <3>2 DEF Put, runVars, timerVars
    <2> QED BY <1>10, <2>1, <2>2 DEF ClientStep
  <1>11. CASE UNCHANGED vars
    BY <1>11 DEF vars, rowVars, runVars, timerVars, clientVars, history
  <1> QED BY <1>1, <1>2, <1>3, <1>4, <1>5, <1>6, <1>7, <1>8, <1>9, <1>10, <1>11 DEF Next

\* Every step keeps the rows and the copies of rows sound: what a coroutine
\* writes back derives from a row that was sound when it read it.
LEMMA RowsStep ==
  ASSUME RestInv, RowsInv, [Next]_vars
  PROVE  RowsInv'
  <1> USE DEF RowsInv
  <1>0. NoRow \in Row /\ NoRow.token = NoRun
    BY NoRowSound DEF Sound, NoRow
  <1>s. \A row : Sound(row) => row \in Row
    BY DEF Sound
  <1>r. ASSUME NEW j \in Jobs, NEW r \in Runs, NEW who, NEW due \in BOOLEAN,
               Reserve(j, r, who), Reservable(rows[j], due), UNCHANGED <<snap, csnap>>
        PROVE  RowsInv'
    <2>1. Sound(ReservedBy(rows[j], r))
      BY <1>r, ReservedSound
    <2> QED BY <1>r, <1>s, <2>1 DEF Reserve, SnapInv, RestInv
  <1>1. CASE TimerStep
    <2>1. CASE TickRead \/ TickEnd \/ \E j \in Jobs : TickRejected(j)
      BY <2>1 DEF TickRead, TickEnd, TickRejected, rowVars, runVars, clientVars, SnapInv
    <2>2. ASSUME NEW j \in Jobs, NEW r \in Runs, TickReserve(j, r) PROVE RowsInv'
      BY <2>2, <1>r DEF TickReserve, clientVars
    <2> QED BY <1>1, <2>1, <2>2 DEF TimerStep
  <1>2. CASE Recover
    <2>1. \A j \in Jobs : Sound(RecoveredRow(rows[j]))
      BY RecoveredSound
    <2> QED BY <1>2, <1>s, <2>1 DEF Recover, runVars, clientVars, SnapInv
  <1>3. CASE CatchUp
    <2> DEFINE taken == {j \in MissedAt(1, MaxCatchup) : Reservable(rows[j], TRUE)}
               later == {j \in MissedAt(MaxCatchup + 1, Len(Missed)) : rows[j].kind # "at"}
    <2>1. PICK f \in [taken -> {r \in Runs : Fresh(r)}], late \in SUBSET later :
            /\ \A j, k \in taken : f[j] = f[k] => j = k
            /\ "schedule" \notin Faults => late = later
            /\ rows' = [j \in Jobs |->
                          CASE j \in taken -> ReservedBy(rows[j], f[j])
                            [] j \in late \ taken -> [rows[j] EXCEPT !.next = "future"]
                            [] OTHER -> rows[j]]
            /\ table' = [j \in Jobs |-> IF j \in taken THEN f[j] ELSE NoRun]
            /\ pc' = [r \in Runs |-> IF \E j \in taken : f[j] = r THEN "stagger" ELSE pc[r]]
            /\ rjob' = [r \in Runs |-> IF \E j \in taken : f[j] = r
                                       THEN CHOOSE j \in taken : f[j] = r ELSE rjob[r]]
            /\ src' = [r \in Runs |-> IF \E j \in taken : f[j] = r THEN "startup" ELSE src[r]]
      BY <1>3 DEF CatchUp
    <2> HIDE DEF later
    <2>2. \A j \in Jobs : j \in taken => f[j] \in Runs
      OBVIOUS
    <2>3. ASSUME NEW j \in Jobs PROVE Sound(rows'[j])
      <3>1. CASE j \in taken
        BY <3>1, <2>1, <2>2, ReservedSound
      <3>2. CASE j \in late \ taken
        BY <3>2, <2>1, ElapsedSound
      <3>3. CASE j \notin taken /\ ~(j \in late \ taken)
        BY <3>3, <2>1
      <3> QED BY <3>1, <3>2, <3>3
    <2>4. UNCHANGED <<snap, csnap>> /\ SnapInv'
      BY <1>3, <2>1 DEF CatchUp, clientVars, SnapInv, RestInv
    <2> QED BY <1>s, <2>1, <2>3, <2>4
  <1>4. CASE Stop
    BY <1>4 DEF Stop, rowVars, clientVars, SnapInv, RestInv
  <1>5. CASE Crash
    BY <1>5, <1>0, NoRowSound DEF Crash, rowVars, SnapInv
  <1>6. ASSUME NEW r \in Runs, RunStep(r) PROVE RowsInv'
    <2>1. CASE Picked(r) \/ StaggerEnds(r)
      BY <2>1 DEF Picked, StaggerEnds, Begin, rowVars, clientVars, SnapInv, RestInv
    <2>2. ASSUME NEW o \in Outcomes, ExecEnds(r, o) PROVE RowsInv'
      BY <2>2 DEF ExecEnds, rowVars, clientVars, SnapInv, RestInv
    <2>3. CASE Record(r)
      BY <2>3 DEF Record, rowVars, clientVars, SnapInv, RestInv
    <2>4. CASE ApplyRead(r)
      BY <2>4 DEF ApplyRead, Owns, Onward, rowVars, clientVars, SnapInv, RestInv
    <2>5. CASE ApplySave(r)
      <3>1. PICK bad \in BOOLEAN :
              rows' = [rows EXCEPT ![rjob[r]] = Applied(snap[r], res[r], bad)]
        BY <2>5 DEF ApplySave
      <3>2. snap[r].token # NoRun
        BY <2>5, RunsAssumption DEF ApplySave, SnapInv
      <3>3. Sound(Applied(snap[r], res[r], bad))
        BY <3>2, AppliedSound DEF RestInv
      <3> QED BY <2>5, <1>s, <1>0, <3>1, <3>3, NoRowSound
              DEF ApplySave, Onward, clientVars, SnapInv, RestInv
    <2>6. CASE Notified(r)
      BY <2>6, <1>0, NoRowSound DEF Notified, Finish, rowVars, clientVars, SnapInv, RestInv
    <2>7. CASE ReleaseRead(r)
      BY <2>7, <1>0, NoRowSound DEF ReleaseRead, Owns, Finish, rowVars, clientVars, SnapInv, RestInv
    <2>8. CASE ReleaseSave(r)
      <3>1. snap[r].token # NoRun
        BY <2>8, RunsAssumption DEF ReleaseSave, SnapInv
      <3>2. Sound(Released(snap[r]))
        BY <3>1, ReleasedSound
      <3> QED BY <2>8, <1>s, <1>0, <3>2, NoRowSound
              DEF ReleaseSave, Finish, clientVars, SnapInv, RestInv
    <2> QED BY <1>6, <2>1, <2>2, <2>3, <2>4, <2>5, <2>6, <2>7, <2>8 DEF RunStep
  <1>7. ASSUME NEW j \in Jobs, Add(j) PROVE RowsInv'
    <2>1. PICK k \in Kinds, on \in BOOLEAN, past \in BOOLEAN :
            rows' = [rows EXCEPT ![j] =
                     [NoRow EXCEPT !.status = IF on THEN "pending" ELSE "paused",
                                   !.enabled = on, !.kind = k, !.once = k = "at",
                                   !.next = IF past THEN "due" ELSE "future"]]
      BY <1>7 DEF Add
    <2>2. k \in {"at", "recurring"}
      BY ChoicesAssumption
    <2>3. \E row : Sound(row) /\ rows' = [rows EXCEPT ![j] = row]
      BY <2>1, <2>2, AddedSound
    <2> QED BY <1>7, <1>s, <2>3 DEF Add, runVars, clientVars, SnapInv
  <1>8. ASSUME NEW j \in Jobs, Elapse(j) PROVE RowsInv'
    <2>1. \E row : Sound(row) /\ rows' = [rows EXCEPT ![j] = row]
      BY <1>8, ElapsedSound DEF Elapse
    <2> QED BY <1>8, <1>s, <2>1 DEF Elapse, runVars, clientVars, SnapInv
  <1>9. ASSUME NEW j \in Jobs, NEW r \in Runs, RunNow(j, r) PROVE RowsInv'
    BY <1>9, <1>r DEF RunNow, clientVars
  <1>10. ASSUME NEW c \in Clients, ClientStep(c) PROVE RowsInv'
    <2>1. ASSUME NEW op \in Ops, NEW j \in Jobs, Get(c, op, j) PROVE RowsInv'
      BY <2>1 DEF Get, rowVars, runVars, SnapInv
    <2>2. ASSUME NEW row, Put(c, row), Sound(row) PROVE RowsInv'
      BY <2>2, <1>s, <1>0, NoRowSound DEF Put, runVars, SnapInv, RestInv
    <2>3. CASE PauseSave(c)
      BY <2>2, <2>3, RewrittenSound DEF PauseSave
    <2>4. CASE ResumeSave(c)
      BY <2>2, <2>4, RewrittenSound DEF ResumeSave
    <2>5. CASE UpdateSave(c)
      BY <2>2, <2>5, RewrittenSound, ChoicesAssumption DEF UpdateSave
    <2>6. CASE RemoveDelete(c)
      BY <2>2, <2>6, NoRowSound DEF RemoveDelete
    <2> QED BY <1>10, <2>1, <2>3, <2>4, <2>5, <2>6 DEF ClientStep
  <1>11. CASE UNCHANGED vars
    BY <1>11 DEF vars, rowVars, runVars, clientVars, SnapInv
  <1> QED BY <1>1, <1>2, <1>3, <1>4, <1>5, <1>6, <1>7, <1>8, <1>9, <1>10, <1>11 DEF Next

\* The invariant behind TypeOK.
THEOREM TypeInvariance == Spec => [](RowsInv /\ RestInv)
  <1>1. Init => RowsInv /\ RestInv
    BY TypeInit
  <1>2. RowsInv /\ RestInv /\ [Next]_vars => (RowsInv /\ RestInv)'
    BY RestStep, RowsStep
  <1> QED BY <1>1, <1>2, PTL DEF Spec

\* Every variable keeps its type for any set of client operations; the
\* consecutive-error counter never passes MAX_CONSECUTIVE_ERRORS, although
\* stale rows are written back at any time.
THEOREM TypeCorrect == Spec => []TypeOK
  <1>1. RowsInv /\ RestInv => TypeOK
    BY DEF RowsInv, RestInv, TypeOK
  <1> QED BY <1>1, TypeInvariance, PTL

----------------------------------------------------------------------------
(* The reservation is a lock *)

\* A reservation by the timer or by run_job_now takes a row that no active run
\* is named in, so that no run of the job is active.
LEMMA ReserveStep ==
  ASSUME RestInv, RowsInv, LockInv,
         NEW j \in Jobs, NEW r \in Runs, NEW who, NEW due \in BOOLEAN,
         Reserve(j, r, who), Reservable(rows[j], due), Up,
         UNCHANGED <<created, res, tpc, cop>>
  PROVE  LockInv'
  <1>1. /\ rows' \in [Jobs -> Row]
        /\ rows'[j].token = r /\ rows'[j].status = "running" /\ rows[j].status = "pending"
        /\ \A k \in Jobs \ {j} : rows'[k] = rows[k]
    BY ReservedSound DEF Reserve, RowsInv, Reservable, Sound
  <1>2. /\ ~Active(r) /\ Active(r)'
        /\ rjob' \in [Runs -> Jobs] /\ rjob'[r] = j
        /\ \A s \in Runs \ {r} : (Active(s)' <=> Active(s)) /\ rjob'[s] = rjob[s]
    BY DEF Reserve, Fresh, Active, RestInv
  <1>3. \A s \in Runs : Active(s) => rjob[s] # j
    BY RunsAssumption DEF LockInv, OwnInv, Exists, Reservable
  <1>4. \A k \in Jobs : rows[k].token # r
    BY DEF Reserve, Fresh
  <1>5. OneRunPerJob'
    BY <1>2, <1>3 DEF LockInv, OneRunPerJob
  <1>6. OwnInv'
    BY <1>1, <1>2, <1>3 DEF LockInv, OwnInv, Exists, RestInv
  <1>7. CreatedInv'
    BY <1>1, <1>2 DEF LockInv, CreatedInv, Exists, RestInv
  <1>8. DownInv' /\ ClientInv'
    BY DEF LockInv, DownInv, ClientInv, Up
  <1>9. ReservationOwned'
    BY <1>1, <1>2, <1>4, RunsAssumption DEF LockInv, ReservationOwned, RowsInv, Row
  <1> QED BY <1>5, <1>6, <1>7, <1>8, <1>9 DEF LockInv

\* A step of run r that leaves the rows alone keeps the lock when r stays
\* active, or ends while no row names it.
LEMMA QuietStep ==
  ASSUME RestInv, RowsInv, LockInv, NEW r \in Runs, Up,
         UNCHANGED <<rows, created, rjob, tpc, cop>>,
         \A s \in Runs \ {r} : Active(s)' <=> Active(s),
         \/ Active(r)' /\ (Active(r) \/ Owns(r))
         \/ ~Active(r)' /\ (~Active(r) \/ ~Owns(r))
  PROVE  LockInv'
  <1>1. OneRunPerJob'
    BY DEF LockInv, OneRunPerJob, OwnInv, Owns, Exists
  <1>2. OwnInv'
    BY DEF LockInv, OwnInv, Owns, Exists
  <1>3. CreatedInv'
    BY DEF LockInv, CreatedInv, Owns, Exists, RestInv
  <1>4. DownInv' /\ ClientInv'
    BY DEF LockInv, DownInv, ClientInv, Up
  <1>5. ReservationOwned'
    <2> SUFFICES ASSUME tpc \in {"idle", "tick"}, NEW j \in Jobs,
                        rows[j].token # NoRun
                 PROVE  Active(rows[j].token)'
      BY DEF ReservationOwned, LockInv
    <2>1. rows[j].token \in Runs /\ Active(rows[j].token) /\ rjob[rows[j].token] = j
      BY DEF LockInv, ReservationOwned, RowsInv, Row
    <2>2. Exists(j)
      BY DEF RowsInv, Sound, Exists
    <2> QED BY <2>1, <2>2 DEF Owns
  <1> QED BY <1>1, <1>2, <1>3, <1>4, <1>5 DEF LockInv

\* An active run that writes a row without token and ends keeps the lock: no
\* other run of the job is active.
LEMMA GiveUpStep ==
  ASSUME RestInv, RowsInv, LockInv, NEW r \in Runs, Active(r), Up, NEW row,
         rows' = [rows EXCEPT ![rjob[r]] = row],
         row.token = NoRun, row.status # "running",
         UNCHANGED <<created, rjob, tpc, cop>>,
         \A s \in Runs \ {r} : Active(s)' <=> Active(s), ~Active(r)'
  PROVE  LockInv'
  <1>0. /\ rjob[r] \in Jobs /\ rows'[rjob[r]] = row
        /\ \A j \in Jobs \ {rjob[r]} : rows'[j] = rows[j]
    BY DEF RowsInv, RestInv
  <1>1. OneRunPerJob'
    BY DEF LockInv, OneRunPerJob
  <1>2. OwnInv'
    BY <1>0 DEF LockInv, OneRunPerJob, OwnInv, Exists, RestInv
  <1>3. CreatedInv'
    BY <1>0 DEF LockInv, CreatedInv, Exists
  <1>4. DownInv' /\ ClientInv'
    BY DEF LockInv, DownInv, ClientInv, Up
  <1>5. ReservationOwned'
    <2> SUFFICES ASSUME tpc \in {"idle", "tick"}, NEW j \in Jobs \ {rjob[r]},
                        rows[j].token # NoRun
                 PROVE  Active(rows[j].token)'
      BY <1>0 DEF ReservationOwned, LockInv
    <2>1. rows[j].token \in Runs /\ Active(rows[j].token) /\ rjob[rows[j].token] = j
      BY DEF LockInv, ReservationOwned, RowsInv, Row
    <2> QED BY <2>1
  <1> QED BY <1>1, <1>2, <1>3, <1>4, <1>5 DEF LockInv

\* A write to a row by somebody who runs nothing keeps the lock when the row
\* keeps token and status, or there was no row, or there is none afterwards.
LEMMA WriteStep ==
  ASSUME RestInv, RowsInv, LockInv, NEW j \in Jobs, NEW row,
         rows' = [rows EXCEPT ![j] = row],
         \/ row.token = rows[j].token /\ row.status = rows[j].status
         \/ row.token = NoRun /\ row.status = "absent"
         \/ row.token = NoRun /\ row.status # "running" /\ j \notin created,
         created \subseteq created', row.status # "absent" => j \in created',
         UNCHANGED <<pc, res, rjob, tpc>>,
         \A c \in Clients : cop'[c] \in {cop[c], "none"}
  PROVE  LockInv'
  <1>0. rows'[j] = row /\ \A k \in Jobs \ {j} : rows'[k] = rows[k]
    BY DEF RowsInv
  <1>1. \A s \in Runs : Active(s)' <=> Active(s)
    BY DEF Active
  <1>2. OneRunPerJob'
    BY <1>1 DEF LockInv, OneRunPerJob
  <1>3. OwnInv'
    BY <1>0, <1>1 DEF LockInv, OwnInv, CreatedInv, Exists, RestInv
  <1>4. CreatedInv'
    BY <1>0, <1>1 DEF LockInv, CreatedInv, Exists
  <1>5. DownInv' /\ ClientInv'
    BY <1>0 DEF LockInv, DownInv, ClientInv, Up
  <1>6. ReservationOwned'
    BY <1>0, <1>1 DEF LockInv, ReservationOwned, RowsInv, Row
  <1> QED BY <1>2, <1>3, <1>4, <1>5, <1>6 DEF LockInv

\* Without rewriting operations every step keeps the lock.
LEMMA LockStep ==
  ASSUME Rewrites = {}, RestInv, RowsInv, LockInv, [Next]_vars
  PROVE  LockInv'
  <1>u. \A r \in Runs : pc[r] # "free" => Up
    BY DEF LockInv, DownInv
  <1>1. CASE TimerStep
    <2>1. CASE TickRead \/ TickEnd \/ \E j \in Jobs : TickRejected(j)
      <3>1. /\ UNCHANGED <<rows, created, pc, rjob, res, cop>>
            /\ tpc \in {"idle", "tick"} /\ tpc' \in {"idle", "tick"}
        BY <2>1 DEF TickRead, TickEnd, TickRejected, rowVars, runVars, clientVars
      <3>2. \A r \in Runs : Active(r)' <=> Active(r)
        BY <3>1 DEF Active
      <3> QED BY <3>1, <3>2 DEF LockInv, OneRunPerJob, OwnInv, CreatedInv, DownInv, ClientInv,
                                ReservationOwned, Exists, Up, RowsInv, Row
    <2>2. ASSUME NEW j \in Jobs, NEW r \in Runs, TickReserve(j, r) PROVE LockInv'
      BY <2>2, ReserveStep DEF TickReserve, clientVars, Up
    <2> QED BY <1>1, <2>1, <2>2 DEF TimerStep
  <1>2. CASE Recover
    <2>1. \A r \in Runs : ~Active(r) /\ ~Active(r)' /\ pc'[r] = "free"
      BY <1>2 DEF Recover, LockInv, DownInv, Up, Active, runVars
    <2>2. \A j \in Jobs : /\ rows'[j].token = NoRun /\ rows'[j].status # "running"
                          /\ rows'[j].status # "absent" => rows[j].status # "absent"
      BY <1>2, RecoveredSound DEF Recover, RowsInv
    <2>3. tpc = "down" /\ tpc' = "recovered" /\ UNCHANGED <<created, cop>>
      BY <1>2 DEF Recover, clientVars
    <2> QED BY <2>1, <2>2, <2>3 DEF LockInv, OneRunPerJob, OwnInv, CreatedInv, DownInv,
                                    ClientInv, ReservationOwned, Exists, Up
  <1>3. CASE CatchUp
    <2> DEFINE taken == {j \in MissedAt(1, MaxCatchup) : Reservable(rows[j], TRUE)}
               later == {j \in MissedAt(MaxCatchup + 1, Len(Missed)) : rows[j].kind # "at"}
    <2>0. taken \subseteq Jobs /\ \A j \in taken : rows[j].status = "pending"
      BY DEF MissedAt, Reservable
    <2>1. PICK f \in [taken -> {r \in Runs : Fresh(r)}], late \in SUBSET later :
            /\ \A j, k \in taken : f[j] = f[k] => j = k
            /\ "schedule" \notin Faults => late = later
            /\ rows' = [j \in Jobs |->
                          CASE j \in taken -> ReservedBy(rows[j], f[j])
                            [] j \in late \ taken -> [rows[j] EXCEPT !.next = "future"]
                            [] OTHER -> rows[j]]
            /\ table' = [j \in Jobs |-> IF j \in taken THEN f[j] ELSE NoRun]
            /\ pc' = [r \in Runs |-> IF \E j \in taken : f[j] = r THEN "stagger" ELSE pc[r]]
            /\ rjob' = [r \in Runs |-> IF \E j \in taken : f[j] = r
                                       THEN CHOOSE j \in taken : f[j] = r ELSE rjob[r]]
            /\ src' = [r \in Runs |-> IF \E j \in taken : f[j] = r THEN "startup" ELSE src[r]]
      BY <1>3 DEF CatchUp
    <2> HIDE DEF later
    <2>2. /\ tpc = "recovered" /\ tpc' = "idle" /\ UNCHANGED <<created, res, cop>>
          /\ \A r \in Runs : pc[r] = "free"
          /\ \A j \in Jobs : rows[j].token = NoRun /\ rows[j].status # "running"
      BY <1>3 DEF CatchUp, clientVars, LockInv, DownInv, Up
    <2>3. ASSUME NEW j \in taken
          PROVE  /\ f[j] \in Runs /\ rows'[j].token = f[j] /\ rows'[j].status = "running"
      <3>1. j \in Jobs /\ f[j] \in Runs /\ Reservable(rows[j], TRUE)
        BY <2>0
      <3>2. rows'[j] = ReservedBy(rows[j], f[j])
        BY <2>1, <3>1
      <3>3. Sound(rows[j])
        BY <3>1 DEF RowsInv
      <3>4. ReservedBy(rows[j], f[j]).token = f[j] /\ ReservedBy(rows[j], f[j]).status = "running"
        BY <3>1, <3>3, ReservedSound
      <3> QED BY <3>1, <3>2, <3>4
    <2>4. ASSUME NEW j \in Jobs \ taken
          PROVE  /\ rows'[j].token = NoRun
                 /\ rows'[j].status = rows[j].status
      <3>1. CASE j \in late \ taken
        BY <2>1, <2>2, <3>1, ElapsedSound DEF RowsInv
      <3>2. CASE ~(j \in late \ taken)
        BY <2>1, <2>2, <3>2
      <3> QED BY <3>1, <3>2
    <2> HIDE DEF taken
    <2>5. \A r \in Runs : Active(r)' => \E j \in taken : f[j] = r /\ rjob'[r] = j
      <3> SUFFICES ASSUME NEW r \in Runs, Active(r)'
                   PROVE  \E j \in taken : f[j] = r /\ rjob'[r] = j
        OBVIOUS
      <3>1. \E j \in taken : f[j] = r
        BY <2>1, <2>2 DEF Active
      <3> QED BY <2>1, <3>1
    <2>6. \A j \in taken : Active(f[j])' /\ rjob'[f[j]] = j
      <3> SUFFICES ASSUME NEW j \in taken PROVE Active(f[j])' /\ rjob'[f[j]] = j
        OBVIOUS
      <3>1. pc'[f[j]] = "stagger"
        BY <2>1, <2>3
      <3>2. rjob'[f[j]] = j
        BY <2>1, <2>3
      <3> QED BY <3>1, <3>2 DEF Active
    <2>7. OneRunPerJob' /\ OwnInv'
      BY <2>3, <2>5 DEF OneRunPerJob, OwnInv
    <2>8. CreatedInv'
      BY <2>0, <2>2, <2>4, <2>5 DEF LockInv, CreatedInv, Exists
    <2>9. ReservationOwned'
      <3> SUFFICES ASSUME NEW j \in Jobs
                   PROVE  /\ rows'[j].status = "running" => rows'[j].token # NoRun
                          /\ rows'[j].token # NoRun =>
                               Active(rows[j].token)' /\ rjob'[rows'[j].token] = j
        BY DEF ReservationOwned
      <3>1. CASE j \in taken
        BY <2>3, <2>6, <3>1, RunsAssumption
      <3>2. CASE j \notin taken
        BY <2>2, <2>4, <3>2
      <3> QED BY <3>1, <3>2
    <2>10. DownInv' /\ ClientInv'
      BY <2>2 DEF LockInv, DownInv, ClientInv, Up
    <2> QED BY <2>7, <2>8, <2>9, <2>10 DEF LockInv
  <1>4. CASE Stop
    <2>1. /\ UNCHANGED <<rows, created, rjob, res, cop>> /\ tpc' = "stopped"
          /\ \A r \in Runs : pc'[r] \in {pc[r], "free", "release"}
      BY <1>4 DEF Stop, rowVars, clientVars
    <2>2. \A r \in Runs : Active(r)' => Active(r)
      BY <2>1 DEF Active
    <2> QED BY <2>1, <2>2 DEF LockInv, OneRunPerJob, OwnInv, CreatedInv, DownInv, ClientInv,
                              ReservationOwned, Exists, Up
  <1>5. CASE Crash
    <2>1. /\ UNCHANGED <<rows, created>> /\ tpc' = "down"
          /\ \A r \in Runs : pc'[r] = "free"
          /\ \A c \in Clients : cop'[c] = "none"
      BY <1>5 DEF Crash, rowVars
    <2>2. \A r \in Runs : ~Active(r)'
      BY <2>1 DEF Active
    <2> QED BY <2>1, <2>2 DEF LockInv, OneRunPerJob, OwnInv, CreatedInv, DownInv, ClientInv,
                              ReservationOwned, Exists
  <1>6. ASSUME NEW r \in Runs, RunStep(r) PROVE LockInv'
    <2>1. CASE Picked(r) \/ StaggerEnds(r)
      <3>1. /\ UNCHANGED <<rows, created, rjob, tpc, cop>> /\ pc[r] # "free"
            /\ \A s \in Runs \ {r} : Active(s)' <=> Active(s)
        BY <2>1 DEF Picked, StaggerEnds, Begin, Active, rowVars, timerVars, clientVars, RestInv
      <3>2. Active(r) /\ (Active(r)' \/ ~Owns(r))
        BY <2>1 DEF Picked, StaggerEnds, Begin, Active, Owns, RestInv
      <3> QED BY <1>u, <3>1, <3>2, QuietStep
    <2>2. ASSUME NEW o \in Outcomes, ExecEnds(r, o) PROVE LockInv'
      <3>1. /\ UNCHANGED <<rows, created, rjob, tpc, cop>> /\ pc[r] # "free"
            /\ \A s \in Runs \ {r} : Active(s)' <=> Active(s)
        BY <2>2 DEF ExecEnds, Active, rowVars, timerVars, clientVars, RestInv
      <3>2. Active(r) /\ Active(r)'
        BY <2>2, ChoicesAssumption DEF ExecEnds, Active, RestInv
      <3> QED BY <1>u, <3>1, <3>2, QuietStep
    <2>3. CASE Record(r)
      <3>1. /\ UNCHANGED <<rows, created, rjob, tpc, cop>> /\ pc[r] # "free"
            /\ \A s \in Runs \ {r} : Active(s)' <=> Active(s)
        BY <2>3 DEF Record, Active, rowVars, timerVars, clientVars, RestInv
      <3>2. Active(r)' <=> Active(r)
        BY <2>3 DEF Record, Active, RestInv
      <3> QED BY <1>u, <3>1, <3>2, QuietStep
    <2>4. CASE ApplyRead(r)
      <3>1. /\ UNCHANGED <<rows, created, rjob, tpc, cop>> /\ pc[r] # "free"
            /\ \A s \in Runs \ {r} : Active(s)' <=> Active(s)
        BY <2>4 DEF ApplyRead, Onward, Active, rowVars, timerVars, clientVars, RestInv
      <3>2. Active(r) /\ (IF Owns(r) THEN Active(r)' ELSE ~Active(r)')
        BY <2>4 DEF ApplyRead, Onward, Active, RestInv
      <3> QED BY <1>u, <3>1, <3>2, QuietStep
    <2>5. CASE ApplySave(r)
      <3>1. PICK bad \in BOOLEAN :
              rows' = [rows EXCEPT ![rjob[r]] = Applied(snap[r], res[r], bad)]
        BY <2>5 DEF ApplySave
      <3>2. snap[r].token # NoRun
        BY <2>5, RunsAssumption DEF ApplySave, RowsInv, SnapInv
      <3>3. /\ Applied(snap[r], res[r], bad).token = NoRun
            /\ Applied(snap[r], res[r], bad).status # "running"
        BY <3>2, AppliedSound DEF RestInv, RowsInv
      <3>4. /\ UNCHANGED <<created, rjob, tpc, cop>> /\ pc[r] # "free"
            /\ \A s \in Runs \ {r} : Active(s)' <=> Active(s)
        BY <2>5 DEF ApplySave, Onward, Active, timerVars, clientVars, RestInv
      <3>5. Active(r) /\ ~Active(r)'
        BY <2>5 DEF ApplySave, Onward, Active, RestInv
      <3> QED BY <1>u, <3>1, <3>3, <3>4, <3>5, GiveUpStep
    <2>6. CASE Notified(r)
      <3>1. /\ UNCHANGED <<rows, created, rjob, tpc, cop>> /\ pc[r] # "free"
            /\ \A s \in Runs \ {r} : Active(s)' <=> Active(s)
        BY <2>6 DEF Notified, Finish, Active, rowVars, timerVars, clientVars, RestInv
      <3>2. ~Active(r) /\ ~Active(r)'
        BY <2>6 DEF Notified, Finish, Active, RestInv
      <3> QED BY <1>u, <3>1, <3>2, QuietStep
    <2>7. CASE ReleaseRead(r)
      <3>1. /\ UNCHANGED <<rows, created, rjob, tpc, cop>> /\ pc[r] # "free"
            /\ \A s \in Runs \ {r} : Active(s)' <=> Active(s)
        BY <2>7 DEF ReleaseRead, Finish, Active, rowVars, timerVars, clientVars, RestInv
      <3>2. ~Active(r) /\ (IF Owns(r) THEN Active(r)' ELSE ~Active(r)')
        BY <2>7 DEF ReleaseRead, Finish, Active, RestInv
      <3> QED BY <1>u, <3>1, <3>2, QuietStep
    <2>8. CASE ReleaseSave(r)
      <3>1. snap[r].token # NoRun
        BY <2>8, RunsAssumption DEF ReleaseSave, RowsInv, SnapInv
      <3>2. Released(snap[r]).token = NoRun /\ Released(snap[r]).status # "running"
        BY <3>1, ReleasedSound DEF RowsInv
      <3>3. /\ UNCHANGED <<created, rjob, tpc, cop>> /\ pc[r] # "free"
            /\ rows' = [rows EXCEPT ![rjob[r]] = Released(snap[r])]
            /\ \A s \in Runs \ {r} : Active(s)' <=> Active(s)
        BY <2>8 DEF ReleaseSave, Finish, Active, timerVars, clientVars, RestInv
      <3>4. Active(r) /\ ~Active(r)'
        BY <2>8 DEF ReleaseSave, Finish, Active, RestInv
      <3> QED BY <1>u, <3>2, <3>3, <3>4, GiveUpStep
    <2> QED BY <1>6, <2>1, <2>2, <2>3, <2>4, <2>5, <2>6, <2>7, <2>8 DEF RunStep
  <1>7. ASSUME NEW j \in Jobs, Add(j) PROVE LockInv'
    <2>1. PICK k \in Kinds, on \in BOOLEAN, past \in BOOLEAN :
            rows' = [rows EXCEPT ![j] =
                     [NoRow EXCEPT !.status = IF on THEN "pending" ELSE "paused",
                                   !.enabled = on, !.kind = k, !.once = k = "at",
                                   !.next = IF past THEN "due" ELSE "future"]]
      BY <1>7 DEF Add
    <2>2. k \in {"at", "recurring"}
      BY ChoicesAssumption
    <2>3. PICK row : /\ rows' = [rows EXCEPT ![j] = row]
                     /\ row.token = NoRun /\ row.status # "running"
      BY <2>1, <2>2, AddedSound
    <2>4. /\ j \notin created /\ created \subseteq created' /\ j \in created'
          /\ UNCHANGED <<pc, res, rjob, tpc, cop>>
      BY <1>7 DEF Add, runVars, timerVars, clientVars
    <2> QED BY <2>3, <2>4, WriteStep
  <1>8. ASSUME NEW j \in Jobs, Elapse(j) PROVE LockInv'
    <2>1. PICK row : /\ rows' = [rows EXCEPT ![j] = row]
                     /\ row.token = rows[j].token /\ row.status = rows[j].status
      BY <1>8, ElapsedSound DEF Elapse, RowsInv
    <2>2. UNCHANGED <<created, pc, res, rjob, tpc, cop>>
      BY <1>8 DEF Elapse, runVars, timerVars, clientVars
    <2>3. row.status # "absent" => j \in created'
      BY <2>1, <2>2 DEF LockInv, CreatedInv, Exists
    <2> QED BY <2>1, <2>2, <2>3, WriteStep
  <1>9. ASSUME NEW j \in Jobs, NEW r \in Runs, RunNow(j, r) PROVE LockInv'
    BY <1>9, ReserveStep DEF RunNow, timerVars, clientVars
  <1>10. ASSUME NEW c \in Clients, ClientStep(c) PROVE LockInv'
    <2>1. ASSUME NEW op \in Ops, NEW j \in Jobs, Get(c, op, j) PROVE LockInv'
      <3>1. UNCHANGED <<rows, created, pc, rjob, res, tpc>> /\ Up
        BY <2>1 DEF Get, rowVars, runVars, timerVars
      <3>2. \A r \in Runs : Active(r)' <=> Active(r)
        BY <3>1 DEF Active
      <3>3. op = "remove"
        BY <2>1, ChoicesAssumption DEF Get, Rewrites
      <3>4. ClientInv'
        BY <2>1, <3>3 DEF Get, LockInv, ClientInv, RestInv
      <3> QED BY <3>1, <3>2, <3>4 DEF LockInv, OneRunPerJob, OwnInv, CreatedInv, DownInv,
                                      ReservationOwned, Exists, Up, RowsInv, Row
    <2>2. CASE PauseSave(c) \/ ResumeSave(c) \/ UpdateSave(c)
      BY <2>2 DEF PauseSave, ResumeSave, UpdateSave, LockInv, ClientInv
    <2>3. CASE RemoveDelete(c)
      <3>1. /\ rows' = [rows EXCEPT ![cjob[c]] = NoRow] /\ cjob[c] \in Jobs
            /\ UNCHANGED <<created, pc, res, rjob, tpc>>
            /\ \A d \in Clients : cop'[d] \in {cop[d], "none"}
        BY <2>3 DEF RemoveDelete, Put, runVars, timerVars, RestInv
      <3>2. NoRow.token = NoRun /\ NoRow.status = "absent"
        BY DEF NoRow
      <3> QED BY <3>1, <3>2, WriteStep
    <2> QED BY <1>10, <2>1, <2>2, <2>3 DEF ClientStep
  <1>11. CASE UNCHANGED vars
    <2>1. UNCHANGED <<rows, created, pc, rjob, res, tpc, cop>>
      BY <1>11 DEF vars, rowVars, runVars, timerVars, clientVars
    <2>2. \A r \in Runs : Active(r)' <=> Active(r)
      BY <2>1 DEF Active
    <2> QED BY <2>1, <2>2 DEF LockInv, OneRunPerJob, OwnInv, CreatedInv, DownInv, ClientInv,
                              ReservationOwned, Exists, Up, RowsInv, Row
  <1> QED BY <1>1, <1>2, <1>3, <1>4, <1>5, <1>6, <1>7, <1>8, <1>9, <1>10, <1>11 DEF Next

\* The lock invariant, while clients add, delete and run jobs only.
THEOREM LockInvariance ==
  ASSUME Rewrites = {}
  PROVE  Spec => []LockInv
  <1>1. Init => LockInv
    BY DEF Init, LockInv, OneRunPerJob, OwnInv, CreatedInv, DownInv, ClientInv,
           ReservationOwned, Active, Exists, Up, NoRow
  <1>2. RowsInv /\ RestInv /\ LockInv /\ [Next]_vars => LockInv'
    BY LockStep
  <1> QED BY <1>1, <1>2, TypeInvariance, PTL DEF Spec

\* While clients add, delete and run jobs only, two runs of one job are never
\* in progress together: the persisted token excludes the timer, catch-up and
\* run_job_now from each other, over crashes and restarts and for any number
\* of jobs and runs.
THEOREM ExclusiveRuns ==
  ASSUME Rewrites = {}
  PROVE  Spec => []OneRunPerJob
  <1>1. LockInv => OneRunPerJob
    BY DEF LockInv
  <1> QED BY <1>1, LockInvariance, PTL

\* ... and no run leaves its reservation behind while the scheduler is up.
THEOREM ReservationsOwned ==
  ASSUME Rewrites = {}
  PROVE  Spec => []ReservationOwned
  <1>1. LockInv => ReservationOwned
    BY DEF LockInv
  <1> QED BY <1>1, LockInvariance, PTL

============================================================================
