------------------------ MODULE ApprovalQueueProofs ------------------------
(***************************************************************************)
(* ApprovalQueue for any approvals, resolvers, waiters and faults: types,  *)
(* one applier, no decision before its effect, decisions that stand, one   *)
(* run for each approval, and the refinement of DecisionGate.              *)
(***************************************************************************)
EXTENDS ApprovalQueue, TLAPS

USE ConstantsAssumption

\* What a resolver or a waiter points at when it has nothing to do.
LEMMA IdleTypes ==
  /\ Idle \in [pc : {"idle", "claimed", "applying"}, a : Approvals]
  /\ Idle \in [pc : {"idle", "waiting", "yes", "no", "ran", "gone"}, a : Approvals]
  /\ Gone \in [pc : {"idle", "waiting", "yes", "no", "ran", "gone"}, a : Approvals]
  /\ Idle.pc = "idle" /\ Gone.pc = "gone"
<1>1. Nothing \in Approvals BY DEF Nothing
<1> QED BY <1>1 DEF Idle, Gone

\* Closing rows keeps the columns typed.
LEMMA CloseTypes ==
  ASSUME NEW A, TypeOK, Close(A)
  PROVE  /\ resolved' \in [Approvals -> BOOLEAN] /\ approved' \in [Approvals -> BOOLEAN]
         /\ consumed' \in [Approvals -> BOOLEAN]
         /\ token' \in [Approvals -> Resolvers \cup {NoOne}]
         /\ \A a \in Approvals :
              (consumed'[a] => approved'[a]) /\ (approved'[a] => resolved'[a])
BY DEF TypeOK, Close

LEMMA TypeInit == Init => TypeOK
BY IdleTypes DEF Init, TypeOK

LEMMA TypeNext == TypeOK /\ [Next]_vars => TypeOK'
<1> SUFFICES ASSUME TypeOK, [Next]_vars PROVE TypeOK' OBVIOUS
<1> USE DEF requests, columns
<1>1. ASSUME NEW a \in Approvals, Request(a) PROVE TypeOK'
  BY <1>1 DEF Request, TypeOK
<1>2. ASSUME NEW a \in Approvals, Resolve(a) PROVE TypeOK'
  <2>1. CASE /\ a \notin sandbox
             /\ resolved' = [resolved EXCEPT ![a] = TRUE]
             /\ approved' = [approved EXCEPT ![a] = TRUE]
             /\ UNCHANGED <<consumed, token>>
    BY <1>2, <2>1 DEF Resolve, TypeOK
  <2>2. ASSUME NEW others, Close({a} \cup others) PROVE TypeOK'
    BY <1>2, <2>2, CloseTypes DEF Resolve, TypeOK
  <2> QED BY <1>2, <2>1, <2>2 DEF Resolve
<1>3. ASSUME NEW a \in Approvals, Extend(a) PROVE TypeOK'
  BY <1>3 DEF Extend, TypeOK
<1>4. ASSUME NEW a \in Approvals, Lapse(a) PROVE TypeOK'
  BY <1>4 DEF Lapse, TypeOK
<1>5. ASSUME NEW a \in Approvals, ReleaseStale(a) PROVE TypeOK'
  BY <1>5 DEF ReleaseStale, TypeOK
<1>6. ASSUME NEW r \in Resolvers, NEW a \in Approvals, Claim(r, a) PROVE TypeOK'
  BY <1>6 DEF Claim, TypeOK
<1>7. ASSUME NEW r \in Resolvers, Finalize(r) PROVE TypeOK'
  <2> DEFINE a == resolver[r].a
  <2>1. a \in Approvals BY DEF TypeOK
  <2>2. CASE Finalizable(r, a)
    <3>1. resolver' = [resolver EXCEPT ![r].pc = "applying"]
      BY <1>7, <2>2 DEF Finalize
    <3>2. resolver' \in [Resolvers -> [pc : {"idle", "claimed", "applying"}, a : Approvals]]
      BY <3>1 DEF TypeOK
    <3>3. /\ resolved' = [resolved EXCEPT ![a] = TRUE]
          /\ approved' = [approved EXCEPT ![a] = TRUE]
          /\ token' = [token EXCEPT ![a] = r]
      BY <1>7, <2>2 DEF Finalize, KeptToken
    <3> HIDE DEF a
    <3> QED BY <1>7, <2>1, <3>2, <3>3 DEF Finalize, TypeOK
  <2>3. CASE ~Finalizable(r, a)
    <3>1. resolver' = [resolver EXCEPT ![r] = Idle] /\ UNCHANGED <<resolved, approved, token>>
      BY <1>7, <2>3 DEF Finalize
    <3> QED BY <1>7, <3>1, IdleTypes DEF Finalize, TypeOK
  <2> QED BY <2>2, <2>3
<1>8. ASSUME NEW r \in Resolvers, ApplyFails(r) PROVE TypeOK'
  BY <1>8, IdleTypes DEF ApplyFails, Reopened, TypeOK
<1>9. ASSUME NEW r \in Resolvers, AuthorityGone(r) PROVE TypeOK'
  BY <1>9, IdleTypes, CloseTypes DEF AuthorityGone, TypeOK
<1>10. ASSUME NEW r \in Resolvers, Cancel(r) PROVE TypeOK'
  BY <1>10, IdleTypes DEF Cancel, TypeOK
<1>11. ASSUME NEW r \in Resolvers, Complete(r) PROVE TypeOK'
  BY <1>11, IdleTypes DEF Complete, TypeOK
<1>12. ASSUME NEW w \in Waiters, NEW a \in Approvals, Wait(w, a) PROVE TypeOK'
  <2>1. Verdict(a) \in {"yes", "no"} BY DEF Verdict
  <2>2. waiter' \in [Waiters -> [pc : {"idle", "waiting", "yes", "no", "ran", "gone"},
                                 a : Approvals]]
    <3>1. \E pc \in {"waiting", "yes", "no"} : waiter' = [waiter EXCEPT ![w] = [pc |-> pc, a |-> a]]
      BY <1>12, <2>1 DEF Wait
    <3> QED BY <3>1 DEF TypeOK
  <2>3. deadline' \in [Approvals -> {"none", "ahead", "past"}]
    BY <1>12 DEF Wait, TypeOK
  <2>4. UNCHANGED <<requests, columns, resolver, extends, boots, applied, runs>>
    BY <1>12 DEF Wait
  <2> HIDE DEF Wait
  <2> QED BY <2>2, <2>3, <2>4 DEF TypeOK
<1>13. ASSUME NEW w \in Waiters, Poll(w) PROVE TypeOK'
  <2> DEFINE a == waiter[w].a
  <2>1. CASE waiter' = [waiter EXCEPT ![w].pc = Verdict(a)] /\ UNCHANGED columns
    <3>1. Verdict(a) \in {"yes", "no"} BY DEF Verdict
    <3> QED BY <1>13, <2>1, <3>1 DEF Poll, TypeOK
  <2>2. CASE Close({a}) /\ waiter' = [waiter EXCEPT ![w].pc = "no"]
    <3>1. waiter' \in [Waiters -> [pc : {"idle", "waiting", "yes", "no", "ran", "gone"},
                                   a : Approvals]]
      BY <2>2 DEF TypeOK
    <3>2. UNCHANGED <<requests, deadline, resolver, extends, boots, applied, runs>>
      BY <1>13 DEF Poll
    <3> QED BY <2>2, <3>1, <3>2, CloseTypes DEF TypeOK
  <2>3. CASE waiter' = [waiter EXCEPT ![w] = Gone] /\ UNCHANGED columns
    BY <1>13, <2>3, IdleTypes DEF Poll, TypeOK
  <2> QED BY <1>13, <2>1, <2>2, <2>3 DEF Poll
<1>14. ASSUME NEW w \in Waiters, Consume(w) PROVE TypeOK'
  <2> DEFINE a == waiter[w].a
  <2>1. a \in Approvals BY DEF TypeOK
  <2>2. CASE Consumable(a)
    <3>1. waiter' = [waiter EXCEPT ![w].pc = "ran"] BY <1>14, <2>2 DEF Consume
    <3>2. waiter' \in [Waiters -> [pc : {"idle", "waiting", "yes", "no", "ran", "gone"},
                                   a : Approvals]]
      BY <3>1 DEF TypeOK
    <3>3. /\ consumed' = [consumed EXCEPT ![a] = TRUE]
          /\ runs' = [runs EXCEPT ![a] = IF @ < 2 THEN @ + 1 ELSE @]
      BY <1>14, <2>2 DEF Consume
    <3>4. resolved[a] /\ approved[a] BY <2>2 DEF Consumable, Ready
    <3> HIDE DEF a
    <3> QED BY <1>14, <2>1, <3>2, <3>3, <3>4 DEF Consume, TypeOK
  <2>3. CASE ~Consumable(a)
    <3>1. waiter' = [waiter EXCEPT ![w] = Gone] /\ UNCHANGED <<consumed, runs>>
      BY <1>14, <2>3 DEF Consume
    <3> QED BY <1>14, <3>1, IdleTypes DEF Consume, TypeOK
  <2> QED BY <2>2, <2>3
<1>15. ASSUME NEW A, Orphan(A)
       PROVE  waiter' \in [Waiters -> [pc : {"idle", "waiting", "yes", "no", "ran", "gone"},
                                       a : Approvals]]
  BY <1>15, IdleTypes DEF Orphan, TypeOK
<1>16. ASSUME NEW A, SessionEnds(A) PROVE TypeOK'
  BY <1>15, <1>16, CloseTypes DEF SessionEnds, TypeOK
<1>17. CASE Restart
  <2>1. resolver' \in [Resolvers -> [pc : {"idle", "claimed", "applying"}, a : Approvals]]
    BY <1>17, IdleTypes DEF Restart, TypeOK
  <2> QED BY <1>15, <1>17, <2>1, CloseTypes DEF Restart, TypeOK
<1>18. CASE UNCHANGED vars
  BY <1>18 DEF vars, TypeOK
<1> QED
  BY <1>1, <1>2, <1>3, <1>4, <1>5, <1>6, <1>7, <1>8, <1>9, <1>10, <1>11, <1>12, <1>13,
     <1>14, <1>16, <1>17, <1>18 DEF Next, RowStep, ResolverStep, WaiterStep

\* Rows, claims, resolvers and waiters keep their types through every step of the
\* queue, its resolvers and its waiters (approval_queue.py).
THEOREM TypeCorrect == Spec => []TypeOK
BY TypeInit, TypeNext, PTL DEF Spec

----------------------------------------------------------------------------
(* The inductive invariant *)

\* Only a row that exists is decided, claimed or waited for; a claimed row is not
\* consumed.
ClaimInv ==
  /\ \A w \in Waiters : waiter[w].pc = "waiting" => waiter[w].a \in requested
  /\ \A a \in Approvals : resolved[a] \/ token[a] # NoOne => a \in requested
  /\ \A a \in Approvals : consumed[a] => token[a] = NoOne

\* Each run has used its approval up.
UsedInv == \A a \in Approvals : runs[a] = 0 \/ (runs[a] = 1 /\ consumed[a])

IInv == OneApplier /\ ApprovedIsApplied /\ DecisionStands /\ ClaimInv /\ UsedInv

\* A step leaves a decision that can be seen as it is.
Stable ==
  \A a \in Approvals : Ready(a) =>
    Ready(a)' /\ (approved'[a] <=> approved[a]) /\ (consumed[a] => consumed'[a])

LEMMA InvInit == Init => IInv
<1> SUFFICES ASSUME Init PROVE IInv OBVIOUS
<1>1. \A r \in Resolvers : resolver[r].pc = "idle" BY IdleTypes DEF Init
<1>2. \A w \in Waiters : waiter[w].pc = "idle" BY IdleTypes DEF Init
<1> QED
  BY <1>1, <1>2 DEF Init, IInv, OneApplier, ApprovedIsApplied, DecisionStands, ClaimInv,
     UsedInv, Ready

\* What every closing of rows amounts to: a denial, an expired request, a lost
\* authority, a session end or a restart.  The rows are not decided yet, and
\* nobody goes on applying them.
Closing(A) ==
  /\ Close(A) /\ UNCHANGED <<requested, sandbox, applied, runs>>
  /\ \A a \in A : a \in requested /\ ~Ready(a)
  /\ \A r \in Resolvers : \/ resolver'[r].pc = "idle"
                          \/ resolver'[r] = resolver[r] /\
                               (resolver[r].pc = "applying" => resolver[r].a \notin A)
  /\ \A w \in Waiters : \/ waiter'[w] = waiter[w]
                        \/ waiter'[w].pc = "gone"
                        \/ waiter'[w].pc = "no" /\ waiter'[w].a \in A

LEMMA ClosedRows == ASSUME TypeOK, TypeOK', IInv, NEW A, Closing(A) PROVE IInv' /\ Stable
<1> USE DEF Closing
<1>1. \A a \in Approvals : a \notin A =>
        /\ resolved'[a] <=> resolved[a]
        /\ approved'[a] <=> approved[a]
        /\ consumed'[a] <=> consumed[a]
        /\ token'[a] = token[a]
  BY DEF Close, TypeOK
<1>2. \A a \in Approvals : a \in A =>
        resolved'[a] /\ ~approved'[a] /\ ~consumed'[a] /\ token'[a] = NoOne
  BY DEF Close, TypeOK
<1>3. Stable BY <1>1 DEF Stable, Ready
<1>4. \A a \in A : a \in Approvals /\ ~consumed[a]
  BY DEF TypeOK, IInv, ClaimInv, Ready
<1>5. OneApplier' BY <1>1 DEF IInv, OneApplier, TypeOK
<1>6. ApprovedIsApplied' BY <1>1, <1>2 DEF IInv, ApprovedIsApplied, Ready, TypeOK
<1>7. DecisionStands'
  <2> SUFFICES ASSUME NEW w \in Waiters
               PROVE  /\ waiter'[w].pc \in {"yes", "ran"} =>
                           Ready(waiter[w].a)' /\ approved'[waiter'[w].a]
                      /\ waiter'[w].pc = "no" =>
                           Ready(waiter[w].a)' /\ ~approved'[waiter'[w].a]
    BY DEF DecisionStands
  <2>1. waiter[w].a \in Approvals /\ waiter'[w].a \in Approvals BY DEF TypeOK
  <2> QED BY <1>2, <1>3, <1>4, <2>1 DEF IInv, DecisionStands, Stable, Ready
<1>8. ClaimInv'
  <2>1. \A w \in Waiters : waiter'[w].pc = "waiting" => waiter'[w] = waiter[w]
    OBVIOUS
  <2> QED BY <1>1, <1>2, <1>4, <2>1 DEF IInv, ClaimInv
<1>9. UsedInv' BY <1>1, <1>4 DEF IInv, UsedInv
<1> QED BY <1>3, <1>5, <1>6, <1>7, <1>8, <1>9 DEF IInv

LEMMA InvNext == TypeOK /\ TypeOK' /\ IInv /\ [Next]_vars => IInv' /\ Stable
<1> SUFFICES ASSUME TypeOK, TypeOK', IInv, [Next]_vars PROVE IInv' /\ Stable OBVIOUS
<1> USE DEF requests, columns
<1>1. ASSUME NEW a \in Approvals, Request(a) PROVE IInv' /\ Stable
  BY <1>1 DEF Request, Stable, IInv, OneApplier, ApprovedIsApplied, DecisionStands,
     ClaimInv, UsedInv, Ready, TypeOK
<1>2. ASSUME NEW a \in Approvals, Resolve(a) PROVE IInv' /\ Stable
  <2>1. CASE /\ a \notin sandbox
             /\ resolved' = [resolved EXCEPT ![a] = TRUE]
             /\ approved' = [approved EXCEPT ![a] = TRUE]
             /\ UNCHANGED <<consumed, token>>
    BY <1>2, <2>1 DEF Resolve, Pending, Stable, IInv, OneApplier, ApprovedIsApplied,
       DecisionStands, ClaimInv, UsedInv, Ready, TypeOK
  <2>2. ASSUME NEW others \in SUBSET {b \in sandbox : a \in sandbox /\ Pending(b)},
               Close({a} \cup others)
        PROVE  IInv' /\ Stable
    <3>1. \A b \in {a} \cup others : b \in requested /\ ~Ready(b) /\ token[b] = NoOne
      BY <1>2 DEF Resolve, Pending, Ready
    <3>2. \A r \in Resolvers : resolver[r].pc = "applying" => resolver[r].a \notin {a} \cup others
      BY <3>1 DEF IInv, OneApplier
    <3>3. UNCHANGED <<requested, sandbox, applied, runs, resolver, waiter>>
      BY <1>2 DEF Resolve
    <3>4. Closing({a} \cup others) BY <2>2, <3>1, <3>2, <3>3 DEF Closing
    <3> QED BY <3>4, ClosedRows
  <2> QED BY <1>2, <2>1, <2>2 DEF Resolve
<1>3. ASSUME NEW a \in Approvals, Extend(a) \/ Lapse(a) PROVE IInv' /\ Stable
  BY <1>3 DEF Extend, Lapse, Stable, IInv, OneApplier, ApprovedIsApplied, DecisionStands,
     ClaimInv, UsedInv, Ready
<1>4. ASSUME NEW a \in Approvals, ReleaseStale(a) PROVE IInv' /\ Stable
  BY <1>4 DEF ReleaseStale, Releasable, Stable, IInv, OneApplier, ApprovedIsApplied,
     DecisionStands, ClaimInv, UsedInv, Ready, TypeOK
<1>5. ASSUME NEW r \in Resolvers, NEW a \in Approvals, Claim(r, a) PROVE IInv' /\ Stable
  BY <1>5 DEF Claim, Pending, Stable, IInv, OneApplier, ApprovedIsApplied, DecisionStands,
     ClaimInv, UsedInv, Ready, TypeOK
<1>6. ASSUME NEW r \in Resolvers, Finalize(r) PROVE IInv' /\ Stable
  <2> DEFINE a == resolver[r].a
  <2>1. a \in Approvals BY DEF TypeOK
  <2>2. CASE Finalizable(r, a)
    <3>1. /\ resolved' = [resolved EXCEPT ![a] = TRUE]
          /\ approved' = [approved EXCEPT ![a] = TRUE]
          /\ token' = [token EXCEPT ![a] = r]
          /\ resolver' = [resolver EXCEPT ![r].pc = "applying"]
          /\ UNCHANGED <<requested, sandbox, consumed, waiter, applied, runs>>
      BY <1>6, <2>2 DEF Finalize, KeptToken
    <3>2. ~resolved[a] /\ token[a] = r BY <2>2 DEF Finalizable
    <3>3. resolver'[r].a = a BY <3>1 DEF TypeOK
    <3>4. \A q \in Resolvers : q # r => resolver'[q] = resolver[q] BY <3>1 DEF TypeOK
    <3> HIDE DEF a
    <3>5. OneApplier' BY <2>1, <3>1, <3>2, <3>3, <3>4 DEF IInv, OneApplier, TypeOK
    <3>6. Stable BY <2>1, <3>1, <3>2 DEF Stable, Ready, TypeOK
    <3>7. ApprovedIsApplied' /\ ClaimInv' /\ UsedInv'
      BY <2>1, <3>1, <3>2 DEF IInv, ApprovedIsApplied, ClaimInv, UsedInv, Ready, TypeOK
    <3>8. DecisionStands' BY <3>1, <3>6 DEF IInv, DecisionStands, Stable, TypeOK
    <3> QED BY <3>5, <3>6, <3>7, <3>8 DEF IInv
  <2>3. CASE ~Finalizable(r, a)
    <3>1. /\ resolver' = [resolver EXCEPT ![r] = Idle]
          /\ UNCHANGED <<requested, sandbox, resolved, approved, consumed, token, waiter, applied, runs>>
      BY <1>6, <2>3 DEF Finalize
    <3> QED
      BY <3>1, IdleTypes DEF Stable, IInv, OneApplier, ApprovedIsApplied, DecisionStands,
         ClaimInv, UsedInv, Ready, TypeOK
  <2> QED BY <2>2, <2>3
<1>7. ASSUME NEW r \in Resolvers, ApplyFails(r) PROVE IInv' /\ Stable
  <2> DEFINE a == resolver[r].a
  <2>1. a \in Approvals /\ a \in requested /\ token[a] = r /\ r # NoOne
    BY <1>7 DEF ApplyFails, IInv, OneApplier, ClaimInv, TypeOK
  <2>2. /\ resolved' = [resolved EXCEPT ![a] = FALSE]
        /\ approved' = [approved EXCEPT ![a] = FALSE]
        /\ consumed' = [consumed EXCEPT ![a] = FALSE]
        /\ token' = [token EXCEPT ![a] = NoOne]
        /\ resolver' = [resolver EXCEPT ![r] = Idle]
        /\ UNCHANGED <<requested, sandbox, waiter, applied, runs>>
    BY <1>7 DEF ApplyFails, Reopened
  <2> HIDE DEF a
  <2>3. Stable BY <2>1, <2>2 DEF Stable, Ready, TypeOK
  <2>4. OneApplier' BY <2>1, <2>2, IdleTypes DEF IInv, OneApplier, TypeOK
  <2>5. ApprovedIsApplied' /\ ClaimInv' /\ UsedInv'
    BY <2>1, <2>2 DEF IInv, ApprovedIsApplied, ClaimInv, UsedInv, Ready, TypeOK
  <2>6. DecisionStands' BY <2>2, <2>3 DEF IInv, DecisionStands, Stable, TypeOK
  <2> QED BY <2>3, <2>4, <2>5, <2>6 DEF IInv
<1>8. ASSUME NEW r \in Resolvers, AuthorityGone(r) PROVE IInv' /\ Stable
  <2> DEFINE a == resolver[r].a
  <2>1. a \in requested /\ ~Ready(a) /\ token[a] = r
    BY <1>8 DEF AuthorityGone, IInv, OneApplier, ClaimInv, Ready, TypeOK
  <2>2. /\ Close({a}) /\ resolver' = [resolver EXCEPT ![r] = Idle]
        /\ UNCHANGED <<requested, sandbox, applied, runs, waiter>>
    BY <1>8 DEF AuthorityGone
  <2> HIDE DEF a
  <2>3. \A q \in Resolvers : resolver'[q].pc = "idle" \/
          (resolver'[q] = resolver[q] /\ (resolver[q].pc = "applying" => resolver[q].a \notin {a}))
    BY <2>1, <2>2, IdleTypes DEF IInv, OneApplier, TypeOK
  <2>4. Closing({a}) BY <2>1, <2>2, <2>3 DEF Closing
  <2> QED BY <2>4, ClosedRows
<1>9. ASSUME NEW r \in Resolvers, Cancel(r) PROVE IInv' /\ Stable
  BY <1>9, IdleTypes DEF Cancel, Stable, IInv, OneApplier, ApprovedIsApplied, DecisionStands,
     ClaimInv, UsedInv, Ready, TypeOK
<1>10. ASSUME NEW r \in Resolvers, Complete(r) PROVE IInv' /\ Stable
  <2> DEFINE a == resolver[r].a
  <2>1. /\ a \in Approvals /\ a \in requested
        /\ resolved[a] /\ approved[a] /\ token[a] = r /\ r # NoOne
    BY <1>10 DEF Complete, IInv, OneApplier, ClaimInv, TypeOK
  <2>2. /\ applied' = applied \cup {a}
        /\ token' = [token EXCEPT ![a] = NoOne]
        /\ resolver' = [resolver EXCEPT ![r] = Idle]
        /\ UNCHANGED <<requested, sandbox, resolved, approved, consumed, waiter, runs>>
    BY <1>10, <2>1 DEF Complete
  <2> HIDE DEF a
  <2>3. Stable BY <2>1, <2>2 DEF Stable, Ready, TypeOK
  <2>4. OneApplier' BY <2>1, <2>2, IdleTypes DEF IInv, OneApplier, TypeOK
  <2>5. ApprovedIsApplied' /\ ClaimInv' /\ UsedInv'
    BY <2>1, <2>2 DEF IInv, ApprovedIsApplied, ClaimInv, UsedInv, Ready, TypeOK
  <2>6. DecisionStands' BY <2>2, <2>3 DEF IInv, DecisionStands, Stable, TypeOK
  <2> QED BY <2>3, <2>4, <2>5, <2>6 DEF IInv
<1>11. ASSUME NEW w \in Waiters, NEW a \in Approvals, Wait(w, a) PROVE IInv' /\ Stable
  <2>1. a \in requested /\ UNCHANGED <<requested, sandbox, resolved, approved, consumed, token,
                                      resolver, applied, runs>>
    BY <1>11 DEF Wait
  <2>2. \/ Ready(a) /\ waiter' = [waiter EXCEPT ![w] = [pc |-> Verdict(a), a |-> a]]
        \/ waiter' = [waiter EXCEPT ![w] = [pc |-> "waiting", a |-> a]]
    BY <1>11 DEF Wait
  <2>3. \A v \in Waiters : v # w => waiter'[v] = waiter[v] BY <2>2 DEF TypeOK
  <2>4. \/ Ready(a) /\ waiter'[w] = [pc |-> Verdict(a), a |-> a]
        \/ waiter'[w] = [pc |-> "waiting", a |-> a]
    BY <2>2 DEF TypeOK
  <2>5. Stable /\ OneApplier' /\ ApprovedIsApplied' /\ UsedInv'
    BY <2>1 DEF Stable, IInv, OneApplier, ApprovedIsApplied, UsedInv, Ready
  <2>6. ClaimInv' BY <2>1, <2>3, <2>4 DEF Verdict, IInv, ClaimInv
  <2>7. DecisionStands' BY <2>1, <2>3, <2>4 DEF Verdict, IInv, DecisionStands, Ready
  <2> QED BY <2>5, <2>6, <2>7 DEF IInv
<1>12. ASSUME NEW w \in Waiters, Poll(w) PROVE IInv' /\ Stable
  <2> DEFINE a == waiter[w].a
  <2>1. a \in Approvals BY DEF TypeOK
  <2>2. UNCHANGED <<requested, sandbox, resolver, applied, runs>> BY <1>12 DEF Poll
  <2>3. CASE Ready(a) /\ waiter' = [waiter EXCEPT ![w].pc = Verdict(a)] /\ UNCHANGED columns
    BY <2>1, <2>2, <2>3 DEF Verdict, Stable, IInv, OneApplier, ApprovedIsApplied,
       DecisionStands, ClaimInv, UsedInv, Ready, TypeOK
  <2>4. CASE /\ ~Ready(a) /\ token[a] = NoOne /\ Close({a})
             /\ waiter' = [waiter EXCEPT ![w].pc = "no"]
    <3>1. a \in requested BY <1>12 DEF Poll, IInv, ClaimInv
    <3>2. \A r \in Resolvers : resolver[r].pc = "applying" => resolver[r].a # a
      BY <2>4 DEF IInv, OneApplier
    <3>3. \A v \in Waiters : waiter'[v] = waiter[v] \/ waiter'[v].pc = "gone" \/
            (waiter'[v].pc = "no" /\ waiter'[v].a = a)
      BY <2>4 DEF TypeOK
    <3> HIDE DEF a
    <3>4. Closing({a}) BY <2>2, <2>4, <3>1, <3>2, <3>3 DEF Closing
    <3> QED BY <3>4, ClosedRows
  <2>5. CASE waiter' = [waiter EXCEPT ![w] = Gone] /\ UNCHANGED columns
    BY <2>2, <2>5, IdleTypes DEF Stable, IInv, OneApplier, ApprovedIsApplied,
       DecisionStands, ClaimInv, UsedInv, Ready, TypeOK
  <2> QED BY <1>12, <2>3, <2>4, <2>5 DEF Poll
<1>13. ASSUME NEW w \in Waiters, Consume(w) PROVE IInv' /\ Stable
  <2> DEFINE a == waiter[w].a
  <2>1. a \in Approvals BY DEF TypeOK
  <2>2. CASE Consumable(a)
    <3>1. /\ waiter' = [waiter EXCEPT ![w].pc = "ran"]
          /\ consumed' = [consumed EXCEPT ![a] = TRUE]
          /\ runs' = [runs EXCEPT ![a] = IF @ < 2 THEN @ + 1 ELSE @]
          /\ UNCHANGED <<requested, sandbox, resolved, approved, token, resolver, applied>>
      BY <1>13, <2>2 DEF Consume
    <3>2. Ready(a) /\ approved[a] /\ ~consumed[a] BY <2>2 DEF Consumable
    <3>3. Stable BY <2>1, <3>1 DEF Stable, Ready, TypeOK
    <3>4. DecisionStands' BY <3>1, <3>2, <3>3 DEF IInv, DecisionStands, Stable, TypeOK
    <3>5. \A v \in Waiters : waiter'[v].pc = "waiting" => waiter'[v] = waiter[v]
      BY <3>1 DEF TypeOK
    <3> HIDE DEF a
    <3>6. OneApplier' /\ ApprovedIsApplied' BY <3>1 DEF IInv, OneApplier, ApprovedIsApplied, Ready
    <3>7. ClaimInv' BY <2>1, <3>1, <3>2, <3>5 DEF IInv, ClaimInv, Ready, TypeOK
    <3>8. UsedInv' BY <2>1, <3>1, <3>2 DEF IInv, UsedInv, TypeOK
    <3> QED BY <3>3, <3>4, <3>6, <3>7, <3>8 DEF IInv
  <2>3. CASE ~Consumable(a)
    <3>1. /\ waiter' = [waiter EXCEPT ![w] = Gone]
          /\ UNCHANGED <<requested, sandbox, resolved, approved, token, consumed, runs, resolver, applied>>
      BY <1>13, <2>3 DEF Consume
    <3> QED
      BY <3>1, IdleTypes DEF Stable, IInv, OneApplier, ApprovedIsApplied, DecisionStands,
         ClaimInv, UsedInv, Ready, TypeOK
  <2> QED BY <2>2, <2>3
<1>14. ASSUME NEW A PROVE \A a \in Expirable(A) : a \in requested /\ ~Ready(a) /\ ~resolved[a]
  BY DEF Expirable, Ready
<1>15. ASSUME NEW A, Orphan(A)
       PROVE  \A w \in Waiters : waiter'[w] = waiter[w] \/ waiter'[w].pc = "gone"
  BY <1>15, IdleTypes DEF Orphan
<1>16. ASSUME NEW A, SessionEnds(A) PROVE IInv' /\ Stable
  <2>1. \A r \in Resolvers : resolver[r].pc = "applying" => resolver[r].a \notin Expirable(A)
    BY <1>14 DEF IInv, OneApplier
  <2>2. \A w \in Waiters : waiter'[w] = waiter[w] \/ waiter'[w].pc = "gone"
    BY <1>15, <1>16 DEF SessionEnds
  <2>3. Close(Expirable(A)) /\ UNCHANGED <<requested, sandbox, applied, runs, resolver>>
    BY <1>16 DEF SessionEnds
  <2>4. Closing(Expirable(A)) BY <1>14, <2>1, <2>2, <2>3 DEF Closing
  <2> QED BY <2>4, ClosedRows
<1>17. CASE Restart
  <2>1. \A r \in Resolvers : \/ resolver'[r].pc = "idle"
                             \/ resolver'[r] = resolver[r] /\
                                  (resolver[r].pc = "applying" => resolver[r].a \notin Expirable(Approvals))
    BY <1>14, <1>17, IdleTypes DEF Restart, IInv, OneApplier
  <2>2. \A w \in Waiters : waiter'[w] = waiter[w] \/ waiter'[w].pc = "gone"
    BY <1>15, <1>17 DEF Restart
  <2>3. Close(Expirable(Approvals)) /\ UNCHANGED <<requested, sandbox, applied, runs>>
    BY <1>17 DEF Restart
  <2>4. Closing(Expirable(Approvals)) BY <1>14, <2>1, <2>2, <2>3 DEF Closing
  <2> QED BY <2>4, ClosedRows
<1>18. CASE UNCHANGED vars
  BY <1>18 DEF vars, Stable, IInv, OneApplier, ApprovedIsApplied, DecisionStands,
     ClaimInv, UsedInv, Ready
<1> QED
  BY <1>1, <1>2, <1>3, <1>4, <1>5, <1>6, <1>7, <1>8, <1>9, <1>10, <1>11, <1>12, <1>13,
     <1>16, <1>17, <1>18 DEF Next, RowStep, ResolverStep, WaiterStep

LEMMA Invariant == Spec => [](TypeOK /\ IInv)
BY TypeInit, TypeNext, InvInit, InvNext, PTL DEF Spec

\* One resolver applies a choice at a time: the token that the finalizing
\* transaction leaves in the row keeps every other resolver, the stale-claim
\* release and the expiry away from it (finalize_claimed_resolution).
THEOREM OneApplierAlways == Spec => []OneApplier
<1>1. IInv => OneApplier BY DEF IInv
<1> QED BY <1>1, Invariant, PTL

\* An approval that is visible has been applied (complete_claimed_resolution).
THEOREM AppliedAlways == Spec => []ApprovedIsApplied
<1>1. IInv => ApprovedIsApplied BY DEF IInv
<1> QED BY <1>1, Invariant, PTL

\* A decision that a waiter was told is never taken back (wait).
THEOREM DecisionsStand == Spec => []DecisionStands
<1>1. IInv => DecisionStands BY DEF IInv
<1> QED BY <1>1, Invariant, PTL

\* An approval permits one run, however many waiters see it (consume).
THEOREM OneRun == Spec => []RunsOnce
<1>1. IInv => RunsOnce
  <2> SUFFICES ASSUME IInv, NEW a \in Approvals PROVE runs[a] <= 1 BY DEF RunsOnce
  <2>1. runs[a] = 0 \/ runs[a] = 1 BY DEF IInv, UsedInv
  <2>2. CASE runs[a] = 0 BY <2>2
  <2>3. CASE runs[a] = 1 BY <2>3
  <2> QED BY <2>1, <2>2, <2>3
<1> QED BY <1>1, Invariant, PTL

----------------------------------------------------------------------------
(* The refinement *)

LEMMA GateInit == Init => Gate!Init
<1> SUFFICES ASSUME Init PROVE Gate!Init OBVIOUS
<1>1. Decision = [a \in Approvals |-> "none"] BY DEF Init, Decision
<1> QED BY <1>1 DEF Init, Gate!Init

\* A step that opens no row and runs no tool decides some rows, or is invisible.
LEMMA GateDecides ==
  ASSUME TypeOK, TypeOK', IInv', Stable, IInv, requested' = requested, runs' = runs
  PROVE  Gate!Decide
<1>1. Decision' \in [Approvals -> {"none", "open", "approved", "denied"}]
  BY DEF Decision
<1>2. ASSUME NEW a \in Approvals, Decision'[a] # Decision[a]
      PROVE  Decision[a] = "open" /\ Decision'[a] \in {"approved", "denied"}
  BY <1>2 DEF Decision, Stable
<1> QED BY <1>1, <1>2 DEF Gate!Decide

LEMMA GateNext ==
  TypeOK /\ TypeOK' /\ IInv /\ [Next]_vars => [Gate!Next]_<<Decision, runs>>
<1> SUFFICES ASSUME TypeOK, TypeOK', IInv, [Next]_vars PROVE Gate!Next OBVIOUS
<1>1. IInv' /\ Stable BY InvNext
<1>2. ASSUME NEW a \in Approvals, Request(a) PROVE Gate!Next
  <2>1. Decision[a] = "none" BY <1>2 DEF Request, Decision
  <2>2. Decision' = [Decision EXCEPT ![a] = "open"]
    <3>1. ~resolved[a] BY <1>2 DEF Request, IInv, ClaimInv
    <3>2. requested' = requested \cup {a} /\ UNCHANGED <<resolved, approved, token>>
      BY <1>2 DEF Request, columns
    <3> QED BY <3>1, <3>2 DEF Decision, Ready
  <2>3. runs' = runs BY <1>2 DEF Request
  <2> QED BY <2>1, <2>2, <2>3 DEF Gate!Next, Gate!Open
<1>3. ASSUME NEW w \in Waiters, Consume(w) PROVE Gate!Next
  <2> DEFINE a == waiter[w].a
  <2>1. a \in Approvals BY DEF TypeOK
  <2>2. UNCHANGED <<requested, resolved, approved, token>> BY <1>3 DEF Consume, requests
  <2>3. Decision' = Decision BY <2>2 DEF Decision, Ready
  <2>4. CASE Consumable(a)
    <3>1. Decision[a] = "approved" /\ ~consumed[a]
      BY <2>1, <2>4 DEF Consumable, Decision, Ready
    <3>2. runs' = [runs EXCEPT ![a] = IF @ < 2 THEN @ + 1 ELSE @] BY <1>3, <2>4 DEF Consume
    <3> HIDE DEF a
    <3>3. runs[a] = 0 BY <2>1, <3>1 DEF IInv, UsedInv
    <3>4. runs' = [runs EXCEPT ![a] = 1] BY <3>2, <3>3
    <3> QED BY <2>1, <2>3, <3>1, <3>3, <3>4 DEF Gate!Next, Gate!Use
  <2>5. CASE ~Consumable(a)
    <3>1. runs' = runs BY <1>3, <2>5 DEF Consume
    <3> QED BY <1>1, <2>2, <3>1, GateDecides DEF Gate!Next
  <2> QED BY <2>4, <2>5
<1>4. ASSUME requested' = requested, runs' = runs PROVE Gate!Next
  BY <1>1, <1>4, GateDecides DEF Gate!Next
<1> USE DEF requests, columns
<1>6. ASSUME NEW a \in Approvals, Resolve(a) PROVE Gate!Next
  BY <1>4, <1>6 DEF Resolve
<1>7. ASSUME NEW a \in Approvals, Extend(a) \/ Lapse(a) \/ ReleaseStale(a) PROVE Gate!Next
  BY <1>4, <1>7 DEF Extend, Lapse, ReleaseStale
<1>8. ASSUME NEW r \in Resolvers, NEW a \in Approvals, Claim(r, a) PROVE Gate!Next
  BY <1>4, <1>8 DEF Claim
<1>9. ASSUME NEW r \in Resolvers, Finalize(r) \/ Cancel(r) \/ Complete(r) PROVE Gate!Next
  BY <1>4, <1>9 DEF Finalize, Cancel, Complete
<1>10. ASSUME NEW r \in Resolvers, ApplyFails(r) PROVE Gate!Next
  BY <1>4, <1>10 DEF ApplyFails
<1>11. ASSUME NEW r \in Resolvers, AuthorityGone(r) PROVE Gate!Next
  BY <1>4, <1>11 DEF AuthorityGone
<1>12. ASSUME NEW w \in Waiters, NEW a \in Approvals, Wait(w, a) PROVE Gate!Next
  BY <1>4, <1>12 DEF Wait
<1>13. ASSUME NEW w \in Waiters, Poll(w) PROVE Gate!Next
  BY <1>4, <1>13 DEF Poll
<1>14. ASSUME NEW A, SessionEnds(A) PROVE Gate!Next
  BY <1>4, <1>14 DEF SessionEnds
<1>15. CASE Restart BY <1>4, <1>15 DEF Restart
<1>16. CASE UNCHANGED vars BY <1>4, <1>16 DEF vars
<1> QED
  BY <1>2, <1>3, <1>6, <1>7, <1>8, <1>9, <1>10, <1>11, <1>12, <1>13, <1>14, <1>15, <1>16
     DEF Next, RowStep, ResolverStep, WaiterStep

\* The queue implements the gate for its readers: each approval is opened once,
\* decided once and used at most once, whatever the claims, reopened rows,
\* expiries and restarts behind it (ApprovalQueue.status, wait, consume).
THEOREM Refinement == Spec => DecidedOnce
<1>1. Spec => [](TypeOK /\ IInv) /\ Init /\ [][Next]_vars
  BY Invariant, PTL DEF Spec
<1> QED BY <1>1, GateInit, GateNext, PTL DEF DecidedOnce, Gate!Spec, Gate!gate
============================================================================
