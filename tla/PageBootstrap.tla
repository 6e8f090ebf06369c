---------------------------- MODULE PageBootstrap ----------------------------
(***************************************************************************)
(* How a page comes back to its session (useChatSessionBootstrap.ts).  The *)
(* socket reconnects by itself for ever; whether the page subscribes again *)
(* is decided here.  A run makes two attempts, and then the page stays     *)
(* degraded until the user retries; a socket that opens later gives it one *)
(* more pair of attempts.  Only a page that went live starts a new run     *)
(* when it loses its socket.                                               *)
(*                                                                         *)
(* These are the steps of one run, a record:                               *)
(*   phase     connecting -> ready or degraded (livePhase)                 *)
(*   attempts  attempts begun in this live phase                           *)
(*   tries     history: attempts begun since it was live, or the user      *)
(*             retried                                                     *)
(*   skip      skipSnapshot: attempts ask for no snapshot                  *)
(*   awaiting  awaitingReplacementConnection                               *)
(*   resume    resumeOnReplacement waits for the end of the phase          *)
(*   late      lateReplacementRecoveryUsed                                 *)
(*   reading   history is being read                                       *)
(*   fresh     freshLiveOutageForHistoryRetry                              *)
(* connectionRecoveryArmed is phase = "ready".                             *)
(***************************************************************************)
EXTENDS Naturals

MaxAttempts == 2

\* Attempts between two moments of being live: a pair, and a late pair.
Budget == 2 * MaxAttempts

Runs == [phase : {"connecting", "ready", "degraded"}, attempts : 0..MaxAttempts,
         tries : 0..(Budget + 1), skip : BOOLEAN, awaiting : BOOLEAN,
         resume : BOOLEAN, late : BOOLEAN, reading : BOOLEAN, fresh : BOOLEAN]

\* createRun: the first attempt begins at once, and history is read beside it.
NewRun == [phase |-> "connecting", attempts |-> 1, tries |-> 1, skip |-> FALSE,
           awaiting |-> FALSE, resume |-> FALSE, late |-> FALSE,
           reading |-> TRUE, fresh |-> FALSE]

\* One more attempt is begun; counted as far as it matters.
Tried(r) == IF r.tries > Budget THEN r.tries ELSE r.tries + 1

\* runLivePhase ends without an authoritative answer.  A resumption that waited
\* for it keeps its attempts and its deadline: it finds them used up, but it
\* counts as the late recovery.
Degraded(r) == [r EXCEPT !.phase = "degraded", !.late = @ \/ r.resume, !.resume = FALSE]

\* runLivePhase, at the head of its loop
NextAttempt(r) ==
  IF r.attempts < MaxAttempts
  THEN [r EXCEPT !.phase = "connecting", !.attempts = @ + 1, !.tries = Tried(r)]
  ELSE Degraded(r)

\* An attempt is rejected.  acked: its subscription had been answered, and the
\* snapshot was still to come (skipSnapshotOnRetry).
Failed(r, acked) == NextAttempt([r EXCEPT !.skip = @ \/ acked])

\* handleConnectionState("disconnected")
Dropped(r, acked) ==
  CASE r.phase = "degraded"                -> r
    [] r.phase = "connecting"              -> Failed([r EXCEPT !.awaiting = TRUE], acked)
    [] r.phase = "ready" /\ ~r.reading     -> NewRun
    [] r.phase = "ready" /\ r.reading      ->
         NextAttempt([r EXCEPT !.awaiting = TRUE, !.resume = FALSE, !.fresh = FALSE,
                               !.attempts = IF r.fresh THEN 0 ELSE @])

\* resetLivePhaseForManualRetry, and the first attempt of the new phase
Restarted(r) ==
  [r EXCEPT !.phase = "connecting", !.attempts = 1, !.skip = FALSE, !.resume = FALSE,
            !.tries = Tried(r)]

\* Mutant: every replacement socket is a new opportunity.
MutAlwaysRecovers(r) ==
  IF r.phase = "degraded" THEN Restarted([r EXCEPT !.awaiting = FALSE])
  ELSE [r EXCEPT !.awaiting = FALSE]
\* handleConnectionState("connected")
Reopened(r) ==
  LET o == [r EXCEPT !.awaiting = FALSE]
  IN CASE r.phase = "connecting"          -> [o EXCEPT !.resume = @ \/ r.awaiting]
       [] r.phase = "degraded" /\ ~r.late -> Restarted([o EXCEPT !.late = TRUE])
       [] OTHER                           -> o

\* runLivePhase has its authoritative answer.
Ready(r) == [r EXCEPT !.phase = "ready", !.resume = FALSE, !.tries = 0]

\* retryLive, by the user: what follows is counted anew.
Retried(r) == Restarted([r EXCEPT !.tries = 0])
=============================================================================
