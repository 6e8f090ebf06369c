---------------------------- MODULE ApprovalQueue ----------------------------
(***************************************************************************)
(* Human approvals (application/approval_queue.py) with the code that      *)
(* decides them and the code that waits for them.  Every method of the     *)
(* queue is one transaction on a row of its SQLite table.                  *)
(*                                                                         *)
(* Resolvers are the surfaces that approve (gateway/rpc_approvals.py,      *)
(* gateway/channel_dispatch.py), possibly of another process on the same   *)
(* table: claim, finalize, apply the choice, complete.  The apply awaits,  *)
(* and may fail.  A resolver holds one claim at a time and stands for its  *)
(* claim token.  Waiters are tool calls parked on an approval; one that    *)
(* sees an approval consumes it and runs.                                  *)
(***************************************************************************)
EXTENDS Naturals

CONSTANTS
  Approvals, Resolvers, Waiters,
  Kinds,       \* sets of approvals that may be the ones of a sandbox kind
  Faults,      \* which environment failures happen
  MaxExtends,  \* bound: times a deadline is moved by hand
  MaxBoots,    \* bound: restarts of the gateway
  NoOne

ASSUME ConstantsAssumption ==
  /\ Approvals # {} /\ Kinds \subseteq SUBSET Approvals /\ NoOne \notin Resolvers
  /\ Faults \subseteq {"fail", "authority", "cancel", "stall", "restart", "session"}
  /\ MaxExtends \in Nat /\ MaxBoots \in Nat

VARIABLES
  requested, \* approvals that have a row
  sandbox,   \* approvals of a sandbox kind: the choice has a side effect
  resolved, approved, consumed, token, \* columns of a row
  deadline,  \* "none", "ahead" or "past"
  resolver,  \* [pc, a]: idle, claimed, applying
  waiter,    \* [pc, a]: idle, waiting, yes, no, ran, gone (raised or ended)
  extends, boots,
  applied,   \* history: approvals whose side effect has been applied
  runs       \* history: tool runs an approval has permitted

requests == <<requested, sandbox>>
columns  == <<resolved, approved, consumed, token>>
vars == <<requests, columns, deadline, resolver, waiter, extends, boots, applied, runs>>

Nothing == CHOOSE a \in Approvals : TRUE
Idle == [pc |-> "idle", a |-> Nothing]
Gone == [pc |-> "gone", a |-> Nothing]

\* Unresolved and unclaimed: what claim, resolve, extend and rearm require.
Pending(a) == a \in requested /\ ~resolved[a] /\ token[a] = NoOne

\* The decision is visible: resolved and no claim outstanding.
Ready(a) == a \in requested /\ resolved[a] /\ token[a] = NoOne

----------------------------------------------------------------------------
(* The queue *)

\* request
Request(a) ==
  /\ a \notin requested
  /\ requested' = requested \cup {a}
  /\ \E d \in {"none", "ahead"} : deadline' = [deadline EXCEPT ![a] = d]
  /\ UNCHANGED <<sandbox, columns, resolver, waiter, extends, boots, applied, runs>>

\* The rows of A are closed without approval.
Close(A) ==
  /\ resolved' = [a \in Approvals |-> resolved[a] \/ a \in A]
  /\ token' = [a \in Approvals |-> IF a \in A THEN NoOne ELSE token[a]]
  /\ approved' = [a \in Approvals |-> approved[a] /\ a \notin A]
  /\ consumed' = [a \in Approvals |-> consumed[a] /\ a \notin A]

\* resolve: a decision without side effect.  A denial in the sandbox denies the
\* matching requests too (deny_matching_pending_sandbox_approvals).
Resolve(a) ==
  /\ Pending(a)
  /\ \/ /\ a \notin sandbox
        /\ resolved' = [resolved EXCEPT ![a] = TRUE]
        /\ approved' = [approved EXCEPT ![a] = TRUE]
        /\ UNCHANGED <<consumed, token>>
     \/ \E others \in SUBSET {b \in sandbox : a \in sandbox /\ Pending(b)} :
          Close({a} \cup others)
  /\ UNCHANGED <<requests, deadline, resolver, waiter, extends, boots, applied, runs>>

\* extend: a wait without a deadline gets one, too
Extend(a) ==
  /\ Pending(a) /\ extends < MaxExtends
  /\ extends' = extends + 1
  /\ deadline' = [deadline EXCEPT ![a] = "ahead"]
  /\ UNCHANGED <<requests, columns, resolver, waiter, boots, applied, runs>>

\* Time passes; after the decision the deadline means nothing.
Lapse(a) ==
  /\ deadline[a] = "ahead" /\ ~Ready(a)
  /\ deadline' = [deadline EXCEPT ![a] = "past"]
  /\ UNCHANGED <<requests, columns, resolver, waiter, extends, boots, applied, runs>>

\* Mutant: the claim of a resolved row may become stale too.
MutAnyClaim(a) == a \in requested /\ token[a] # NoOne
Releasable(a) == a \in requested /\ ~resolved[a] /\ token[a] # NoOne

\* A claim outlives its time to live, because its resolver is gone or has stalled,
\* and the next method that reads the row gives it up (_release_stale_claims).
ReleaseStale(a) ==
  /\ Releasable(a)
  /\ \/ resolver[token[a]] # [pc |-> "claimed", a |-> a]
     \/ "stall" \in Faults
  /\ token' = [token EXCEPT ![a] = NoOne]
  /\ UNCHANGED <<requests, resolved, approved, consumed, deadline, resolver, waiter,
                 extends, boots, applied, runs>>

----------------------------------------------------------------------------
(* Resolvers *)

\* claim_resolution
Claim(r, a) ==
  /\ resolver[r].pc = "idle" /\ Pending(a) /\ a \in sandbox
  /\ token' = [token EXCEPT ![a] = r]
  /\ resolver' = [resolver EXCEPT ![r] = [pc |-> "claimed", a |-> a]]
  /\ UNCHANGED <<requests, resolved, approved, consumed, deadline, waiter,
                 extends, boots, applied, runs>>

Finalizable(r, a) == ~resolved[a] /\ token[a] = r

\* Mutant: finalizing gives the claim up.
MutReadyAtOnce(r) == NoOne
KeptToken(r) == r

\* finalize_claimed_resolution; a refusal ends the resolver, and
\* release_resolution_claim finds nothing of its own to release.
Finalize(r) ==
  /\ resolver[r].pc = "claimed"
  /\ LET a == resolver[r].a IN
       \/ /\ Finalizable(r, a)
          /\ resolved' = [resolved EXCEPT ![a] = TRUE]
          /\ approved' = [approved EXCEPT ![a] = TRUE]
          /\ token' = [token EXCEPT ![a] = KeptToken(r)]
          /\ resolver' = [resolver EXCEPT ![r].pc = "applying"]
       \/ /\ ~Finalizable(r, a)
          /\ resolver' = [resolver EXCEPT ![r] = Idle]
          /\ UNCHANGED <<resolved, approved, token>>
  /\ UNCHANGED <<requests, consumed, deadline, waiter, extends, boots, applied, runs>>

\* Mutant: the reopened row keeps its verdict.
MutKeepsVerdict(a) == approved
Reopened(a) == [approved EXCEPT ![a] = FALSE]

\* The apply raises an Exception: reopen_resolved_approval.
ApplyFails(r) ==
  /\ "fail" \in Faults /\ resolver[r].pc = "applying"
  /\ LET a == resolver[r].a IN
       /\ resolved' = [resolved EXCEPT ![a] = FALSE]
       /\ approved' = Reopened(a)
       /\ consumed' = [consumed EXCEPT ![a] = FALSE]
       /\ token' = [token EXCEPT ![a] = NoOne]
  /\ resolver' = [resolver EXCEPT ![r] = Idle]
  /\ UNCHANGED <<requests, deadline, waiter, extends, boots, applied, runs>>

\* The authority behind the request is gone: expire_claimed_resolution.
AuthorityGone(r) ==
  /\ "authority" \in Faults /\ resolver[r].pc = "applying"
  /\ token[resolver[r].a] = r
  /\ Close({resolver[r].a})
  /\ resolver' = [resolver EXCEPT ![r] = Idle]
  /\ UNCHANGED <<requests, deadline, waiter, extends, boots, applied, runs>>

\* The apply is cancelled.  A CancelledError is no Exception: nothing is undone.
Cancel(r) ==
  /\ "cancel" \in Faults /\ resolver[r].pc = "applying"
  /\ resolver' = [resolver EXCEPT ![r] = Idle]
  /\ UNCHANGED <<requests, columns, deadline, waiter, extends, boots, applied, runs>>

\* apply_sandbox_approval_choice returns: complete_claimed_resolution.
Complete(r) ==
  /\ resolver[r].pc = "applying"
  /\ LET a == resolver[r].a IN
       /\ applied' = applied \cup {a}
       /\ token' = IF resolved[a] /\ approved[a] /\ token[a] = r
                   THEN [token EXCEPT ![a] = NoOne] ELSE token
  /\ resolver' = [resolver EXCEPT ![r] = Idle]
  /\ UNCHANGED <<requests, resolved, approved, consumed, deadline, waiter,
                 extends, boots, runs>>

----------------------------------------------------------------------------
(* Waiters *)

Verdict(a) == IF approved[a] THEN "yes" ELSE "no"

\* wait is called; a timeout rearms the deadline of a pending request.
Wait(w, a) ==
  /\ waiter[w].pc = "idle" /\ a \in requested
  /\ \/ /\ Ready(a)
        /\ waiter' = [waiter EXCEPT ![w] = [pc |-> Verdict(a), a |-> a]]
        /\ UNCHANGED deadline
     \/ /\ ~Ready(a)
        /\ waiter' = [waiter EXCEPT ![w] = [pc |-> "waiting", a |-> a]]
        /\ \E timed \in BOOLEAN :
             deadline' = IF timed /\ Pending(a) THEN [deadline EXCEPT ![a] = "ahead"]
                         ELSE deadline
  /\ UNCHANGED <<requests, columns, resolver, extends, boots, applied, runs>>

\* Mutant: only the deadline of an unclaimed request counts.
MutLapsedUnclaimed(a) == deadline[a] = "past" /\ token[a] = NoOne
Lapsed(a) == deadline[a] = "past"

\* One round of the loop in wait: the decision is there, or the deadline has
\* passed and the request is expired (_expire_if_unresolved) or, with a claim
\* on it, an error is raised.
Poll(w) ==
  /\ waiter[w].pc = "waiting"
  /\ LET a == waiter[w].a IN
       \/ /\ Ready(a)
          /\ waiter' = [waiter EXCEPT ![w].pc = Verdict(a)]
          /\ UNCHANGED columns
       \/ /\ ~Ready(a) /\ Lapsed(a) /\ token[a] = NoOne
          /\ Close({a})
          /\ waiter' = [waiter EXCEPT ![w].pc = "no"]
       \/ /\ ~Ready(a) /\ Lapsed(a) /\ token[a] # NoOne
          /\ waiter' = [waiter EXCEPT ![w] = Gone]
          /\ UNCHANGED columns
  /\ UNCHANGED <<requests, deadline, resolver, extends, boots, applied, runs>>

\* Mutant: a consumed approval permits another run.
MutConsumesTwice(a) == Ready(a) /\ approved[a]
Consumable(a) == Ready(a) /\ approved[a] /\ ~consumed[a]

\* consume, before the tool runs.
Consume(w) ==
  /\ waiter[w].pc = "yes"
  /\ LET a == waiter[w].a IN
       \/ /\ Consumable(a)
          /\ consumed' = [consumed EXCEPT ![a] = TRUE]
          /\ runs' = [runs EXCEPT ![a] = IF @ < 2 THEN @ + 1 ELSE @]
          /\ waiter' = [waiter EXCEPT ![w].pc = "ran"]
       \/ /\ ~Consumable(a)
          /\ waiter' = [waiter EXCEPT ![w] = Gone]
          /\ UNCHANGED <<consumed, runs>>
  /\ UNCHANGED <<requests, resolved, approved, token, deadline, resolver,
                 extends, boots, applied>>

----------------------------------------------------------------------------
(* The gateway *)

Expirable(A) == {a \in A \cap requested : ~resolved[a]}

\* Waiters on the approvals in A end with their task; others may look on.
Orphan(A) ==
  \E gone \in SUBSET {w \in Waiters : waiter[w].pc = "waiting" /\ waiter[w].a \in A} :
    waiter' = [w \in Waiters |->
                IF w \in gone THEN Gone ELSE waiter[w]]

\* A task or a proxied request ends while approvals of its session are open:
\* expire_pending_for_session, expire_pending.
SessionEnds(A) ==
  /\ "session" \in Faults
  /\ Expirable(A) # {}
  /\ Close(Expirable(A))
  /\ Orphan(A)
  /\ UNCHANGED <<requests, deadline, resolver, extends, boots, applied, runs>>

\* The gateway stops at any point and is started again: expire_all_pending.
\* Resolvers of other processes go on.
Restart ==
  /\ "restart" \in Faults /\ boots < MaxBoots
  /\ boots' = boots + 1
  /\ Close(Expirable(Approvals))
  /\ Orphan(Approvals)
  /\ \E gone \in SUBSET Resolvers :
       resolver' = [r \in Resolvers |-> IF r \in gone THEN Idle ELSE resolver[r]]
  /\ UNCHANGED <<requests, deadline, extends, applied, runs>>

----------------------------------------------------------------------------
(* Specification *)

Init ==
  /\ sandbox \in Kinds /\ requested = {} /\ applied = {} /\ extends = 0 /\ boots = 0
  /\ resolved = [a \in Approvals |-> FALSE]
  /\ approved = [a \in Approvals |-> FALSE]
  /\ consumed = [a \in Approvals |-> FALSE]
  /\ token = [a \in Approvals |-> NoOne]
  /\ deadline = [a \in Approvals |-> "none"]
  /\ runs = [a \in Approvals |-> 0]
  /\ resolver = [r \in Resolvers |-> Idle]
  /\ waiter = [w \in Waiters |-> Idle]

RowStep(a) == Request(a) \/ Resolve(a) \/ Extend(a) \/ Lapse(a) \/ ReleaseStale(a)

ResolverStep(r) ==
  \/ \E a \in Approvals : Claim(r, a)
  \/ Finalize(r) \/ ApplyFails(r) \/ AuthorityGone(r) \/ Cancel(r) \/ Complete(r)

WaiterStep(w) == Poll(w) \/ Consume(w) \/ \E a \in Approvals : Wait(w, a)

Next ==
  \/ \E a \in Approvals : RowStep(a)
  \/ \E r \in Resolvers : ResolverStep(r)
  \/ \E w \in Waiters : WaiterStep(w)
  \/ \E A \in SUBSET Approvals : SessionEnds(A)
  \/ Restart

Spec == Init /\ [][Next]_vars

\* wait polls its row again and again, and time passes.
FairSpec ==
  /\ Spec
  /\ \A w \in Waiters : WF_vars(Poll(w))
  /\ \A a \in Approvals : WF_vars(Lapse(a))

----------------------------------------------------------------------------
(* Properties *)

\* Only an approved request is consumed, and only a resolved one is approved.
TypeOK ==
  /\ requested \subseteq Approvals /\ sandbox \in Kinds /\ applied \subseteq Approvals
  /\ resolved \in [Approvals -> BOOLEAN] /\ approved \in [Approvals -> BOOLEAN]
  /\ consumed \in [Approvals -> BOOLEAN]
  /\ token \in [Approvals -> Resolvers \cup {NoOne}]
  /\ \A a \in Approvals : (consumed[a] => approved[a]) /\ (approved[a] => resolved[a])
  /\ deadline \in [Approvals -> {"none", "ahead", "past"}]
  /\ resolver \in [Resolvers -> [pc : {"idle", "claimed", "applying"},
                                 a : Approvals]]
  /\ waiter \in [Waiters -> [pc : {"idle", "waiting", "yes", "no", "ran", "gone"},
                             a : Approvals]]
  /\ extends \in 0..MaxExtends /\ boots \in 0..MaxBoots
  /\ runs \in [Approvals -> 0..2]

\* Two resolvers never apply the choice of one approval: the one that does owns
\* the claim, through stale claims, expiry, session ends and restarts
\* (finalize_claimed_resolution).
OneApplier ==
  \A r \in Resolvers : resolver[r].pc = "applying" =>
    resolved[resolver[r].a] /\ approved[resolver[r].a] /\ token[resolver[r].a] = r

\* A sandbox approval is visible as approved only after its side effect has been
\* applied (wait and consume with finalize_claimed_resolution).
ApprovedIsApplied ==
  \A a \in sandbox : Ready(a) /\ approved[a] => a \in applied

\* What one waiter was told stays so, whatever the others do: a decision is not
\* reopened, expired or overruled once it was seen (wait).
DecisionStands ==
  \A w \in Waiters :
    /\ waiter[w].pc \in {"yes", "ran"} => Ready(waiter[w].a) /\ approved[waiter[w].a]
    /\ waiter[w].pc = "no" => Ready(waiter[w].a) /\ ~approved[waiter[w].a]

\* Several waiters may see an approval; it permits one run (consume).
RunsOnce == \A a \in Approvals : runs[a] <= 1

\* An approval is undecided for its readers until it is ready.
Decision ==
  [a \in Approvals |-> IF a \notin requested THEN "none"
                       ELSE IF ~Ready(a) THEN "open"
                       ELSE IF approved[a] THEN "approved" ELSE "denied"]

Gate == INSTANCE DecisionGate WITH decision <- Decision, used <- runs

\* The queue implements the gate: claims, reopened rows and expiry are invisible
\* or one decision, and a tool runs once at most on it, however many waiters saw
\* it (the ready test of status and wait, consume).
DecidedOnce == Gate!Spec

\* A wait with a deadline ends, although resolvers may stall, fail or vanish with
\* their claim (wait, _expire_if_unresolved).
WaitsEnd ==
  \A w \in Waiters :
    (waiter[w].pc = "waiting" /\ deadline[waiter[w].a] # "none") ~> waiter[w].pc # "waiting"
=============================================================================
