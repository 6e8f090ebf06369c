-------------------------- MODULE ChannelDelivery --------------------------
(***************************************************************************)
(* Inbound delivery of one managed channel: the ingress journal and the    *)
(* transport lease (channels/delivery_store.py), the channel's life in a   *)
(* gateway process (channels/manager.py) and the dispatch loop             *)
(* (gateway/channel_dispatch.py).                                          *)
(*                                                                         *)
(* Gateways are processes that share the state directory, and with it the  *)
(* journal and the lease.  Each has an adapter with an in-memory queue and *)
(* one dispatch loop, which handles one event at a time:                   *)
(*   off       no loop               receive   awaits the queue            *)
(*   claimed   an event is claimed, admission and acceptance are going on  *)
(*   finish    it was answered or a turn was accepted for it               *)
(*   dead      the loop gave up, its budget of exceptions is used up       *)
(* A claim token is unique per claim.  A loop holds one claim at a time,   *)
(* and a row keeps the token of an earlier claim of the same process only  *)
(* while no loop holds that claim; so the process stands for the token.    *)
(* In the same way the owner id, which is unique per process, stands for   *)
(* the lease and its fencing token.                                        *)
(***************************************************************************)
EXTENDS Naturals, FiniteSets, SequencesExt

CONSTANTS
  Gateways,    \* processes
  Events,      \* inbound events with a native id
  Adapter,     \* "enqueue": the adapter has enqueue(), which is durable_enqueue
               \* "dedupe":  it has enqueue(), which drops ids it has seen
               \* "handler": it has no enqueue(); its handlers queue events
  Faults,      \* which environment failures happen
  MaxErrors,   \* exceptions a dispatch loop survives: 6 attempts in 4 cycles
  MaxPassed,   \* _max_claimed_unjournaled_events
  MaxQueue,    \* bound: a fuller queue takes no delivery and is not stopped
  MaxCrashes,  \* bound: ends of a process
  NoOne        \* no claim, or an owner that is gone

ASSUME ConstantsAssumption ==
  /\ IsFiniteSet(Events) /\ Events # {} /\ NoOne \notin Gateways
  /\ Adapter \in {"enqueue", "dedupe", "handler"}
  /\ Faults \subseteq {"crash", "stall", "journal", "raise", "rebuild", "start", "renewal"}
  /\ MaxErrors \in Nat /\ MaxPassed \in Nat \ {0}
  /\ MaxQueue \in Nat /\ MaxCrashes \in Nat

VARIABLES
  row,      \* channel_ingress.state of an event, "none" without a row
  claim,    \* channel_ingress.claim_token
  lease,    \* [owner, live]: channel_transport_leases
  receipts, \* events with a turn ingress receipt in session storage
  chan,     \* "idle", "running", "unguarded": the renewal task has died, or
            \* "fenced": the renewal task has stopped the adapter
  queue,    \* the adapter's queue
  marked,   \* _unjournaled_events
  passed,   \* _claimed_unjournaled_events, oldest first
  visible,  \* _recovered_pending_visibility
  known,    \* the adapter's _dedupe
  loop,     \* [pc, ev, durable]: the dispatch loop and its claim
  errors,   \* exceptions the dispatch loop has survived
  crashes,  \* ends of a process so far
  turns,    \* history: turns started for an event
  answered, \* history: events that were answered or given a turn
  finished  \* history: events whose dispatch a process has completed

journal  == <<row, claim>>
memory   == <<marked, passed, visible, known>>
history  == <<turns, answered, finished>>
vars == <<journal, lease, receipts, chan, queue, memory, loop, errors, crashes, history>>

Idle(pc) == [pc |-> pc, ev |-> CHOOSE e \in Events : TRUE, durable |-> FALSE]
May(fault) == IF fault \in Faults THEN BOOLEAN ELSE {FALSE}
Receiving(g) == chan[g] \in {"running", "unguarded"}
Unfinished(e) == row[e] \in {"accepted", "processing"}
Without(s, e) == RemoveAt(s, CHOOSE i \in DOMAIN s : s[i] = e)

----------------------------------------------------------------------------
(* The journal *)

SetRow(e, state, owner) ==
  /\ row' = [row EXCEPT ![e] = state]
  /\ claim' = [claim EXCEPT ![e] = owner]

\* Mutant: a redelivery is looked up in the journal only.
MutForgetsMarkers(g, e) == FALSE
Pending(g, e) == e \in marked[g] \/ e \in ToSet(passed[g])

\* A refused duplicate of a passed event becomes the youngest entry.
Touch(g, e) ==
  passed' = [passed EXCEPT ![g] = IF e \in ToSet(@) THEN Append(Without(@, e), e) ELSE @]

\* durable_enqueue: accept_inbound, then put_nowait.  A storage error accepts
\* the event in memory only.
Deliver(g, e) ==
  /\ Receiving(g) /\ Len(queue[g]) < MaxQueue
  /\ Adapter = "dedupe" => e \notin known[g]
  /\ known' = [known EXCEPT ![g] = IF Adapter = "dedupe" THEN @ \cup {e} ELSE @]
  /\ \/ /\ Pending(g, e)
        /\ Touch(g, e)
        /\ UNCHANGED <<journal, queue, marked, visible>>
     \/ /\ ~Pending(g, e) /\ row[e] = "none"
        /\ SetRow(e, "accepted", NoOne)
        /\ queue' = [queue EXCEPT ![g] = Append(@, e)]
        /\ UNCHANGED <<marked, passed, visible>>
     \/ /\ ~Pending(g, e) /\ row[e] = "accepted" /\ e \in visible[g]
        /\ visible' = [visible EXCEPT ![g] = @ \ {e}]
        /\ queue' = [queue EXCEPT ![g] = Append(@, e)]
        /\ UNCHANGED <<journal, marked, passed>>
     \/ /\ ~Pending(g, e) /\ "journal" \in Faults
        /\ marked' = [marked EXCEPT ![g] = @ \cup {e}]
        /\ queue' = [queue EXCEPT ![g] = Append(@, e)]
        /\ UNCHANGED <<journal, passed, visible>>
  /\ UNCHANGED <<lease, receipts, chan, loop, errors, crashes, history>>

----------------------------------------------------------------------------
(* The dispatch loop *)

ClaimedState == "processing"

\* Mutants: the budget is counted one too far, or one too short.
MutOneTooMany(g) == errors[g] > MaxErrors
MutOneTooFew(g) == errors[g] + 1 >= MaxErrors
Spent(g) == errors[g] >= MaxErrors

\* An exception leaves run_channel_dispatch.  _run_one_dispatch_cycle and
\* _dispatch_with_retry start it again until their budget is used up; no
\* success resets the budget.
Raised(g) ==
  /\ loop' = [loop EXCEPT ![g] = Idle(IF Spent(g) THEN "dead" ELSE "receive")]
  /\ errors' = [errors EXCEPT ![g] = IF Spent(g) THEN @ ELSE @ + 1]

HandOut(g, e, durable) ==
  loop' = [loop EXCEPT ![g] = [pc |-> "claimed", ev |-> e, durable |-> durable]]

\* claim_inbound of an event that is in no memory set.
ClaimJournaled(g, e) ==
  /\ ~Pending(g, e)
  /\ \/ /\ row[e] = "accepted"
        /\ SetRow(e, ClaimedState, g)
        /\ HandOut(g, e, TRUE)
        /\ UNCHANGED errors
     \/ /\ row[e] # "accepted"
        /\ UNCHANGED <<journal, loop, errors>>
     \/ /\ "journal" \in Faults
        /\ Raised(g)
        /\ UNCHANGED journal
  /\ UNCHANGED <<marked, passed, finished>>

\* Mutant: the marker stays when another writer has journaled the event.
MutKeepsMarker(g, e) == marked' = [marked EXCEPT ![g] = IF row[e] = "none" THEN @ \ {e} ELSE @]
Unmark(g, e) == marked' = [marked EXCEPT ![g] = @ \ {e}]

Remembered(s, e) == IF Len(s) >= MaxPassed THEN Append(Tail(s), e) ELSE Append(s, e)

\* claim_inbound of an event that was accepted in memory only: it is journaled
\* now, or dropped because another writer did so, or passed through.
ClaimMarked(g, e) ==
  /\ e \in marked[g] /\ e \notin ToSet(passed[g])
  /\ Unmark(g, e)
  /\ \/ /\ row[e] = "none"
        /\ SetRow(e, ClaimedState, g)
        /\ HandOut(g, e, TRUE)
        /\ UNCHANGED <<passed, finished>>
     \/ /\ row[e] # "none"
        /\ UNCHANGED <<journal, loop, passed, finished>>
     \/ /\ "journal" \in Faults
        /\ passed' = [passed EXCEPT ![g] = Remembered(@, e)]
        /\ finished' = [finished EXCEPT ![g] = @ \ (ToSet(passed[g]) \ ToSet(passed'[g]))]
        /\ HandOut(g, e, FALSE)
        /\ UNCHANGED journal
  /\ UNCHANGED errors

ClaimPassed(g, e) ==
  /\ e \in ToSet(passed[g])
  /\ Touch(g, e)
  /\ UNCHANGED <<journal, marked, finished, loop, errors>>

\* receive() and claim_inbound.
Claim(g) ==
  /\ loop[g].pc = "receive" /\ queue[g] # <<>>
  /\ queue' = [queue EXCEPT ![g] = Tail(@)]
  /\ LET e == Head(queue[g]) IN
       ClaimJournaled(g, e) \/ ClaimMarked(g, e) \/ ClaimPassed(g, e)
  /\ UNCHANGED <<lease, receipts, chan, visible, known, crashes, turns, answered>>

\* The event is denied, is an approval reply or a command, or finds no
\* capacity: it is answered and gets no turn.
Answer(g) ==
  /\ loop[g].pc = "claimed"
  /\ loop' = [loop EXCEPT ![g].pc = "finish"]
  /\ answered' = answered \cup {loop[g].ev}
  /\ UNCHANGED <<journal, lease, receipts, chan, queue, memory, errors, crashes, turns, finished>>

\* Mutant: the acceptance does not look for a receipt.
MutAcceptsAgain(e) == TRUE
Fresh(e) == e \notin receipts

\* _accept_channel_runtime_turn: turn and receipt in one transaction, or the
\* receipt of an earlier acceptance is found and the event is a replay.
AcceptTurn(g) ==
  /\ loop[g].pc = "claimed"
  /\ LET e == loop[g].ev IN
       /\ turns' = [turns EXCEPT ![e] = IF Fresh(e) /\ @ < 2 THEN @ + 1 ELSE @]
       /\ receipts' = receipts \cup {e}
       /\ answered' = answered \cup {e}
  /\ loop' = [loop EXCEPT ![g].pc = "finish"]
  /\ UNCHANGED <<journal, lease, chan, queue, memory, errors, crashes, finished>>

\* Mutant: the update is by event key only.
MutIgnoresToken(g, e) == TRUE
OwnsClaim(g, e) == loop[g].durable /\ claim[e] = g

\* fail_inbound after a refused acceptance; other exceptions are raised again.
Fail(g) ==
  /\ loop[g].pc = "claimed"
  /\ LET e == loop[g].ev IN
       IF OwnsClaim(g, e) THEN SetRow(e, "accepted", NoOne) ELSE UNCHANGED journal
  /\ \/ loop' = [loop EXCEPT ![g] = Idle("receive")] /\ UNCHANGED errors
     \/ "raise" \in Faults /\ Raised(g)
  /\ UNCHANGED <<lease, receipts, chan, queue, memory, crashes, history>>

\* complete_inbound
Complete(g) ==
  /\ loop[g].pc = "finish"
  /\ LET e == loop[g].ev IN
       /\ IF OwnsClaim(g, e) THEN SetRow(e, "completed", NoOne) ELSE UNCHANGED journal
       /\ finished' = [finished EXCEPT ![g] =
                         IF loop[g].durable /\ ~OwnsClaim(g, e) THEN @ ELSE @ \cup {e}]
  /\ loop' = [loop EXCEPT ![g] = Idle("receive")]
  /\ UNCHANGED <<lease, receipts, chan, queue, memory, errors, crashes, turns, answered>>

\* An exception outside the guarded acceptance, or from complete_inbound: the
\* row keeps its claim.
Abandon(g) ==
  /\ "raise" \in Faults /\ loop[g].pc \in {"claimed", "finish"}
  /\ Raised(g)
  /\ UNCHANGED <<journal, lease, receipts, chan, queue, memory, crashes, history>>

----------------------------------------------------------------------------
(* The channel in its process *)

\* acquire_transport_lease
Acquirable(g) == lease.owner = g \/ ~lease.live

\* Mutant: claims of an interrupted dispatch are left alone.
MutRecoversAccepted == {e \in Events : row[e] = "accepted"}
Recoverable == {e \in Events : Unfinished(e)}

\* What enqueue() puts in the queue when the recovered events come in.
Requeued(g) ==
  {e \in Recoverable : ~Pending(g, e) /\ (Adapter = "dedupe" => e \notin known[g])}

\* recover_inbound and the enqueue() of each event, if the adapter has one.
Recover(g) ==
  IF Adapter = "handler" THEN UNCHANGED <<journal, queue, visible, known>>
  ELSE /\ row' = [e \in Events |-> IF e \in Recoverable THEN "accepted" ELSE row[e]]
       /\ claim' = [e \in Events |-> IF e \in Recoverable THEN NoOne ELSE claim[e]]
       /\ queue' = [queue EXCEPT ![g] = @ \o SetToSeq(Requeued(g))]
       /\ visible' = [visible EXCEPT ![g] = (@ \cup Recoverable) \ Requeued(g)]
       /\ known' = [known EXCEPT ![g] = IF Adapter = "dedupe" THEN @ \cup Recoverable ELSE @]

\* _safe_start.  An adapter that does not start gives the lease back.
Start(g) ==
  /\ chan[g] = "idle" /\ Acquirable(g)
  /\ Recover(g)
  /\ \E fails \in May("start") :
       /\ fails => Len(queue'[g]) <= MaxQueue
       /\ lease' = [owner |-> g, live |-> ~fails]
       /\ chan' = [chan EXCEPT ![g] = IF fails THEN "idle" ELSE "running"]
       /\ loop' = [loop EXCEPT ![g] = Idle(IF fails THEN "off" ELSE "receive")]
  /\ UNCHANGED <<receipts, marked, passed, errors, crashes, history>>

\* _stop_channel_locked: the loop is cancelled where it stands, the adapter is
\* stopped, the lease is released.  A restart keeps the adapter and its queue;
\* reconcile() replaces both.
Stop(g) ==
  /\ chan[g] # "idle" /\ Len(queue[g]) <= MaxQueue
  /\ chan' = [chan EXCEPT ![g] = "idle"]
  /\ loop' = [loop EXCEPT ![g] = Idle("off")]
  /\ errors' = [errors EXCEPT ![g] = 0]
  /\ lease' = IF lease.owner = g THEN [lease EXCEPT !.live = FALSE] ELSE lease
  /\ \E rebuilt \in May("rebuild") :
       /\ queue' = [queue EXCEPT ![g] = IF rebuilt THEN <<>> ELSE @]
       /\ known' = [known EXCEPT ![g] = IF rebuilt THEN {} ELSE @]
  /\ UNCHANGED <<journal, receipts, marked, passed, visible, crashes, history>>

\* Mutant: a renewal that matched no row is taken for one that did.
MutRenewsAnyway(g) == TRUE
HoldsLease(g) == lease.owner = g

\* _renew_transport_lease: without the lease the adapter is stopped, the
\* dispatch loop is not.  A storage error ends the task and stops neither.
Renew(g) ==
  /\ chan[g] = "running"
  /\ \E raises \in May("renewal") :
       /\ lease' = IF HoldsLease(g) /\ ~raises THEN [lease EXCEPT !.live = TRUE] ELSE lease
       /\ chan' = [chan EXCEPT ![g] = IF raises THEN "unguarded"
                                      ELSE IF HoldsLease(g) THEN @ ELSE "fenced"]
  /\ UNCHANGED <<journal, receipts, queue, memory, loop, errors, crashes, history>>

\* Owners that may miss a renewal: they are gone, their event loop stalls, or
\* their renewal task has died.
Untended == {NoOne} \cup {g \in Gateways : "stall" \in Faults \/ chan[g] = "unguarded"}

\* 120 s without a renewal.
Lapse ==
  /\ lease.live /\ lease.owner \in Untended
  /\ lease' = [lease EXCEPT !.live = FALSE]
  /\ UNCHANGED <<journal, receipts, chan, queue, memory, loop, errors, crashes, history>>

\* The process ends and is started again: the successor has another owner id
\* and an empty memory.
Crash(g) ==
  /\ "crash" \in Faults /\ crashes < MaxCrashes
  /\ crashes' = crashes + 1
  /\ chan' = [chan EXCEPT ![g] = "idle"]
  /\ lease' = IF lease.owner = g THEN [lease EXCEPT !.owner = NoOne] ELSE lease
  /\ queue' = [queue EXCEPT ![g] = <<>>]
  /\ loop' = [loop EXCEPT ![g] = Idle("off")]
  /\ marked' = [marked EXCEPT ![g] = {}]
  /\ passed' = [passed EXCEPT ![g] = <<>>]
  /\ visible' = [visible EXCEPT ![g] = {}]
  /\ known' = [known EXCEPT ![g] = {}]
  /\ finished' = [finished EXCEPT ![g] = {}]
  /\ errors' = [errors EXCEPT ![g] = 0]
  /\ UNCHANGED <<journal, receipts, turns, answered>>

----------------------------------------------------------------------------
(* Specification *)

Init ==
  /\ row = [e \in Events |-> "none"] /\ claim = [e \in Events |-> NoOne]
  /\ lease = [owner |-> NoOne, live |-> FALSE]
  /\ receipts = {} /\ crashes = 0
  /\ chan = [g \in Gateways |-> "idle"]
  /\ queue = [g \in Gateways |-> <<>>]
  /\ marked = [g \in Gateways |-> {}] /\ passed = [g \in Gateways |-> <<>>]
  /\ visible = [g \in Gateways |-> {}] /\ known = [g \in Gateways |-> {}]
  /\ loop = [g \in Gateways |-> Idle("off")] /\ errors = [g \in Gateways |-> 0]
  /\ turns = [e \in Events |-> 0] /\ answered = {}
  /\ finished = [g \in Gateways |-> {}]

LoopStep(g) == Claim(g) \/ Answer(g) \/ AcceptTurn(g) \/ Fail(g) \/ Complete(g) \/ Abandon(g)

ChannelStep(g) == Start(g) \/ Stop(g) \/ Renew(g) \/ Crash(g)

Next ==
  \/ \E g \in Gateways : LoopStep(g) \/ ChannelStep(g)
  \/ \E g \in Gateways, e \in Events : Deliver(g, e)
  \/ Lapse

Spec == Init /\ [][Next]_vars

\* asyncio runs the dispatch loop and the renewal task again and again.
FairSpec == Spec /\ \A g \in Gateways : WF_vars(LoopStep(g)) /\ WF_vars(Renew(g))

----------------------------------------------------------------------------
(* Properties *)

TypeOK ==
  /\ row \in [Events -> {"none", "accepted", "processing", "completed"}]
  /\ claim \in [Events -> Gateways \cup {NoOne}]
  /\ lease \in [owner : Gateways \cup {NoOne}, live : BOOLEAN]
  /\ receipts \subseteq Events /\ answered \subseteq Events
  /\ chan \in [Gateways -> {"idle", "running", "unguarded", "fenced"}]
  /\ queue \in [Gateways -> Seq(Events)]
  /\ marked \in [Gateways -> SUBSET Events] /\ finished \in [Gateways -> SUBSET Events]
  /\ passed \in [Gateways -> Seq(Events)]
  /\ \A g \in Gateways : Len(passed[g]) <= MaxPassed
  /\ visible \in [Gateways -> SUBSET Events] /\ known \in [Gateways -> SUBSET Events]
  /\ loop \in [Gateways -> [pc : {"off", "receive", "claimed", "finish", "dead"},
                            ev : Events, durable : BOOLEAN]]
  /\ errors \in [Gateways -> 0..MaxErrors] /\ crashes \in 0..MaxCrashes
  /\ turns \in [Events -> 0..2]

\* However often an event is redelivered, recovered, claimed by two processes
\* or passed through a failing journal, it starts one turn
\* (_accept_channel_runtime_turn_impl with the receipts of accept_turn).
OneTurnPerEvent == \A e \in Events : turns[e] <= 1

\* The journal closes no event that nobody dealt with: a crash, a restart or a
\* takeover by another process between claim_inbound and complete_inbound
\* leaves the row open.  A row that is completed stays so, although an
\* interrupted dispatch may still report the failure of its superseded claim
\* (fail_inbound).
CompletedIsFinal ==
  [][\A e \in Events :
       /\ row[e] = "completed" => row'[e] = "completed"
       /\ row'[e] = "completed" => e \in answered']_vars

\* Every marker of an event accepted in memory only has its event in the
\* queue, so that claim_inbound resolves it; accept_inbound refuses
\* redeliveries as long as the marker stands.
MarkersQueued == \A g \in Gateways : marked[g] \subseteq ToSet(queue[g])

\* What a process has completed it does not claim from the journal again, through
\* outages in which it passed events, redeliveries, restarts and takeovers by
\* another process (accept_inbound, claim_inbound).  A completion that came too
\* late for its claim does not count, nor does a passed event that was evicted;
\* an outage of both calls lets a redelivered event through, unclaimed.
CompletedOnce ==
  [][\A g \in Gateways : \A e \in finished[g] :
       loop[g].pc = "receive" /\ loop'[g].durable => loop'[g].ev # e]_vars

\* When a channel starts, no event is left claimed by an interrupted dispatch
\* or out of reach of the new loop (_safe_start with recover_inbound).  An event
\* that the same process passed through counts as dealt with.
RestartAdopts ==
  [][\A g \in Gateways : chan[g] = "idle" /\ chan'[g] = "running" =>
       \A e \in Events : row'[e] \in {"accepted", "processing"} =>
         \/ row'[e] = "accepted" /\ e \in ToSet(queue'[g])
         \/ e \in ToSet(passed[g])]_vars

\* No dispatch loop: it was stopped, or has survived all the exceptions it may.
Unserved(g) == loop[g].pc = "off" \/ (loop[g].pc = "dead" /\ errors[g] = MaxErrors)

\* A channel that is served has the event in its queue or at hand.
Waits(g, e) ==
  /\ ~Unserved(g)
  /\ e \in ToSet(queue[g]) \/ (loop[g].pc \in {"claimed", "finish"} /\ loop[g].ev = e)

\* An event in the queue of a channel that is served is completed, or the last
\* attempt at it failed and it waits for the next start of a channel; below its
\* budget no exception ends the loop (_dispatch_with_retry).
QueuedIsDispatched ==
  \A g \in Gateways, e \in Events : Waits(g, e) ~> (row[e] = "completed" \/ ~Waits(g, e))

\* A process that has lost the lease to another one stops its adapter
\* (_renew_transport_lease), unless its renewal task has died of a storage error.
FencedStops ==
  \A g \in Gateways :
    (Receiving(g) /\ lease.owner # g) ~> (~Receiving(g) \/ lease.owner = g)
=============================================================================
