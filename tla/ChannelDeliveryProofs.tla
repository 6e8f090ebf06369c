----------------------- MODULE ChannelDeliveryProofs -----------------------
(***************************************************************************)
(* ChannelDelivery for any gateways, events, adapters and faults: an event *)
(* starts one turn, the journal closes what was dealt with, for good, and  *)
(* what a process keeps in memory agrees with the journal and its queue.   *)
(***************************************************************************)
EXTENDS ChannelDelivery, FiniteSetTheorems, SequenceTheorems, TLAPS

USE ConstantsAssumption

\* The part of the types that the proofs need.
RowsTyped ==
  /\ row \in [Events -> {"none", "accepted", "processing", "completed"}]
  /\ claim \in [Events -> Gateways \cup {NoOne}]
  /\ turns \in [Events -> 0..2]
  /\ loop = [g \in Gateways |-> [pc |-> loop[g].pc, ev |-> loop[g].ev,
                                 durable |-> loop[g].durable]]

\* The receipt of an event is as old as its turn.
TurnInv == \A e \in Events : turns[e] = 0 \/ (turns[e] = 1 /\ e \in receipts)

\* A completed row was dealt with, and nobody's claim is on it.
DoneInv == \A e \in Events : row[e] = "completed" => e \in answered /\ claim[e] = NoOne

\* A dispatch that is about to complete has dealt with its event.
FinishInv == \A g \in Gateways : loop[g].pc = "finish" => loop[g].ev \in answered

IInv == RowsTyped /\ TurnInv /\ DoneInv /\ FinishInv

\* What a step may never do to a row.
Kept == \A e \in Events : row[e] = "completed" => row'[e] = "completed"

LEMMA IdleFields ==
  ASSUME NEW pc
  PROVE  /\ Idle(pc) = [pc |-> Idle(pc).pc, ev |-> Idle(pc).ev, durable |-> Idle(pc).durable]
         /\ Idle(pc).pc = pc
BY DEF Idle

LEMMA InvInit == Init => IInv
BY IdleFields DEF Init, IInv, RowsTyped, TurnInv, DoneInv, FinishInv

\* The loop of g is idle or stopped, and nothing else of the invariant changes.
LEMMA LoopRests ==
  ASSUME IInv, NEW g \in Gateways, NEW pc \in {"off", "receive", "dead"},
         loop' = [loop EXCEPT ![g] = Idle(pc)],
         UNCHANGED <<row, claim, turns, receipts, answered>>
  PROVE  IInv' /\ Kept
BY IdleFields DEF IInv, RowsTyped, TurnInv, DoneInv, FinishInv, Kept

LEMMA InvNext == IInv /\ [Next]_vars => IInv' /\ Kept
<1> SUFFICES ASSUME IInv, [Next]_vars PROVE IInv' /\ Kept OBVIOUS
<1> USE DEF journal, memory, history
<1>1. ASSUME UNCHANGED <<row, claim, turns, receipts, answered, loop>> PROVE IInv' /\ Kept
  BY <1>1 DEF IInv, RowsTyped, TurnInv, DoneInv, FinishInv, Kept
<1>2. ASSUME NEW g \in Gateways, NEW e \in Events, Deliver(g, e) PROVE IInv' /\ Kept
  <2>1. UNCHANGED <<turns, receipts, answered, loop>> BY <1>2 DEF Deliver
  <2>2. \/ row[e] = "none" /\ SetRow(e, "accepted", NoOne)
        \/ UNCHANGED <<row, claim>>
    BY <1>2 DEF Deliver
  <2>3. CASE row[e] = "none" /\ SetRow(e, "accepted", NoOne)
    BY <2>1, <2>3 DEF SetRow, IInv, RowsTyped, TurnInv, DoneInv, FinishInv, Kept
  <2>4. CASE UNCHANGED <<row, claim>> BY <1>1, <2>1, <2>4
  <2> QED BY <2>2, <2>3, <2>4
<1>3. ASSUME NEW g \in Gateways, Raised(g), UNCHANGED <<row, claim, turns, receipts, answered>>
      PROVE  IInv' /\ Kept
  BY <1>3, LoopRests DEF Raised
<1>4. ASSUME NEW g \in Gateways, NEW e, NEW s \in {"accepted", "processing"},
             NEW o \in Gateways \cup {NoOne},
             row[e] # "completed", SetRow(e, s, o), UNCHANGED <<turns, receipts, answered>>,
             \/ \E d \in BOOLEAN : HandOut(g, e, d)
             \/ \E pc \in {"off", "receive", "dead"} : loop' = [loop EXCEPT ![g] = Idle(pc)]
      PROVE  IInv' /\ Kept
  <2>1. /\ row' \in [Events -> {"none", "accepted", "processing", "completed"}]
        /\ claim' \in [Events -> Gateways \cup {NoOne}]
        /\ turns' \in [Events -> 0..2]
    BY <1>4 DEF SetRow, IInv, RowsTyped
  <2>2. /\ loop' = [h \in Gateways |-> [pc |-> loop'[h].pc, ev |-> loop'[h].ev,
                                       durable |-> loop'[h].durable]]
        /\ FinishInv'
    <3>1. CASE \E d \in BOOLEAN : HandOut(g, e, d)
      <4>1. PICK d \in BOOLEAN : HandOut(g, e, d) BY <3>1
      <4> QED BY <1>4, <4>1 DEF HandOut, IInv, RowsTyped, FinishInv
    <3>2. CASE \E pc \in {"off", "receive", "dead"} : loop' = [loop EXCEPT ![g] = Idle(pc)]
      <4>1. PICK pc \in {"off", "receive", "dead"} : loop' = [loop EXCEPT ![g] = Idle(pc)]
        BY <3>2
      <4> QED BY <1>4, <4>1, IdleFields DEF IInv, RowsTyped, FinishInv
    <3> QED BY <1>4, <3>1, <3>2
  <2>3. TurnInv' /\ DoneInv' /\ Kept
    BY <1>4 DEF SetRow, IInv, RowsTyped, TurnInv, DoneInv, Kept
  <2> QED BY <2>1, <2>2, <2>3 DEF IInv, RowsTyped
<1>5. ASSUME NEW g \in Gateways, Claim(g) PROVE IInv' /\ Kept
  <2> DEFINE e == Head(queue[g])
  <2>1. UNCHANGED <<turns, receipts, answered>> BY <1>5 DEF Claim
  <2>2. CASE ClaimJournaled(g, e)
    <3>1. CASE row[e] = "accepted" /\ SetRow(e, "processing", g) /\ HandOut(g, e, TRUE)
      BY <1>4, <2>1, <3>1
    <3>2. CASE UNCHANGED <<row, claim, loop>> BY <1>1, <2>1, <3>2
    <3>3. CASE Raised(g) /\ UNCHANGED <<row, claim>> BY <1>3, <2>1, <3>3
    <3> QED BY <2>2, <3>1, <3>2, <3>3 DEF ClaimJournaled, ClaimedState
  <2>3. CASE ClaimMarked(g, e)
    <3>1. CASE row[e] = "none" /\ SetRow(e, "processing", g) /\ HandOut(g, e, TRUE)
      BY <1>4, <2>1, <3>1
    <3>2. CASE UNCHANGED <<row, claim, loop>> BY <1>1, <2>1, <3>2
    <3>3. CASE HandOut(g, e, FALSE) /\ UNCHANGED <<row, claim>>
      BY <2>1, <3>3 DEF HandOut, IInv, RowsTyped, TurnInv, DoneInv, FinishInv, Kept
    <3> QED BY <2>3, <3>1, <3>2, <3>3 DEF ClaimMarked, ClaimedState
  <2>4. CASE ClaimPassed(g, e)
    BY <1>1, <2>1, <2>4 DEF ClaimPassed
  <2> QED BY <1>5, <2>2, <2>3, <2>4 DEF Claim
<1>6. ASSUME NEW g \in Gateways, Answer(g) PROVE IInv' /\ Kept
  BY <1>6 DEF Answer, IInv, RowsTyped, TurnInv, DoneInv, FinishInv, Kept
<1>7. ASSUME NEW g \in Gateways, AcceptTurn(g) PROVE IInv' /\ Kept
  <2> DEFINE e == loop[g].ev
  <2>1. /\ turns' = [turns EXCEPT ![e] = IF e \notin receipts /\ @ < 2 THEN @ + 1 ELSE @]
        /\ receipts' = receipts \cup {e} /\ answered' = answered \cup {e}
        /\ loop' = [loop EXCEPT ![g].pc = "finish"] /\ UNCHANGED <<row, claim>>
    BY <1>7 DEF AcceptTurn, Fresh
  <2>2. RowsTyped' /\ TurnInv'
    <3>1. ASSUME NEW f \in Events PROVE turns'[f] = 0 \/ (turns'[f] = 1 /\ f \in receipts')
      BY <2>1, <3>1 DEF IInv, RowsTyped, TurnInv
    <3>2. turns' \in [Events -> 0..2]
      <4>1. \A f \in Events : turns[f] < 2 => turns[f] + 1 \in 0..2
        BY DEF IInv, RowsTyped
      <4>2. ASSUME NEW f \in Events PROVE turns'[f] \in 0..2
        BY <2>1, <4>1, <4>2 DEF IInv, RowsTyped
      <4> QED BY <2>1, <4>2 DEF IInv, RowsTyped
    <3>3. loop' = [h \in Gateways |-> [pc |-> loop'[h].pc, ev |-> loop'[h].ev,
                                       durable |-> loop'[h].durable]]
      BY <2>1 DEF IInv, RowsTyped
    <3> QED BY <2>1, <3>1, <3>2, <3>3 DEF IInv, RowsTyped, TurnInv
  <2>3. FinishInv' /\ DoneInv' /\ Kept
    BY <2>1 DEF IInv, RowsTyped, FinishInv, DoneInv, Kept
  <2> QED BY <2>2, <2>3 DEF IInv
<1>8. ASSUME NEW g \in Gateways, Fail(g) PROVE IInv' /\ Kept
  <2> DEFINE e == loop[g].ev
  <2>1. UNCHANGED <<turns, receipts, answered>> BY <1>8 DEF Fail
  <2>2. \E pc \in {"off", "receive", "dead"} : loop' = [loop EXCEPT ![g] = Idle(pc)]
    BY <1>8 DEF Fail, Raised
  <2>3. CASE OwnsClaim(g, e)
    <3>1. SetRow(e, "accepted", NoOne) BY <1>8, <2>3 DEF Fail
    <3>2. CASE e \in Events
      <4>1. row[e] # "completed" BY <2>3, <3>2 DEF OwnsClaim, IInv, DoneInv
      <4> QED BY <1>4, <2>1, <2>2, <3>1, <4>1
    <3>3. CASE e \notin Events
      <4>1. row' = row /\ claim' = claim BY <3>1, <3>3 DEF SetRow, IInv, RowsTyped
      <4> QED BY <2>1, <2>2, <4>1, LoopRests
    <3> QED BY <3>2, <3>3
  <2>4. CASE ~OwnsClaim(g, e)
    <3>1. UNCHANGED <<row, claim>> BY <1>8, <2>4 DEF Fail
    <3> QED BY <2>1, <2>2, <3>1, LoopRests
  <2> QED BY <2>3, <2>4
<1>9. ASSUME NEW g \in Gateways, Complete(g) PROVE IInv' /\ Kept
  <2> DEFINE e == loop[g].ev
  <2>1. /\ loop' = [loop EXCEPT ![g] = Idle("receive")]
        /\ UNCHANGED <<turns, receipts, answered>> /\ e \in answered
    BY <1>9 DEF Complete, IInv, FinishInv
  <2>2. CASE OwnsClaim(g, e)
    <3>1. SetRow(e, "completed", NoOne) BY <1>9, <2>2 DEF Complete
    <3> HIDE DEF e
    <3>2. RowsTyped' BY <2>1, <3>1, IdleFields DEF SetRow, IInv, RowsTyped
    <3>3. FinishInv' BY <2>1, IdleFields DEF IInv, RowsTyped, FinishInv
    <3>4. TurnInv' /\ DoneInv' /\ Kept
      BY <2>1, <3>1 DEF SetRow, IInv, RowsTyped, TurnInv, DoneInv, Kept
    <3> QED BY <3>2, <3>3, <3>4 DEF IInv
  <2>3. CASE ~OwnsClaim(g, e)
    <3>1. UNCHANGED <<row, claim>> BY <1>9, <2>3 DEF Complete
    <3> QED BY <2>1, <3>1, LoopRests
  <2> QED BY <2>2, <2>3
<1>10. ASSUME NEW g \in Gateways, Abandon(g) PROVE IInv' /\ Kept
  BY <1>3, <1>10 DEF Abandon
<1>11. ASSUME NEW g \in Gateways, Start(g) PROVE IInv' /\ Kept
  <2>1. PICK pc \in {"off", "receive", "dead"} : loop' = [loop EXCEPT ![g] = Idle(pc)]
    BY <1>11 DEF Start
  <2>2. UNCHANGED <<turns, receipts, answered>> BY <1>11 DEF Start
  <2>3. CASE UNCHANGED <<row, claim>> BY <2>1, <2>2, <2>3, LoopRests
  <2>4. CASE /\ row' = [e \in Events |-> IF e \in Recoverable THEN "accepted" ELSE row[e]]
             /\ claim' = [e \in Events |-> IF e \in Recoverable THEN NoOne ELSE claim[e]]
    <3>1. \A e \in Events : row[e] = "completed" => e \notin Recoverable
      BY DEF Recoverable, Unfinished
    <3> QED
      BY <2>1, <2>2, <2>4, <3>1, IdleFields
      DEF IInv, RowsTyped, TurnInv, DoneInv, FinishInv, Kept
  <2> QED BY <1>11, <2>3, <2>4 DEF Start, Recover
<1>12. ASSUME NEW g \in Gateways, Stop(g) \/ Crash(g) PROVE IInv' /\ Kept
  BY <1>12, LoopRests DEF Stop, Crash
<1>13. ASSUME NEW g \in Gateways, Renew(g) PROVE IInv' /\ Kept
  BY <1>1, <1>13 DEF Renew
<1>14. CASE Lapse BY <1>1, <1>14 DEF Lapse
<1>15. CASE UNCHANGED vars BY <1>1, <1>15 DEF vars
<1> QED
  BY <1>2, <1>5, <1>6, <1>7, <1>8, <1>9, <1>10, <1>11, <1>12, <1>13, <1>14, <1>15
     DEF Next, LoopStep, ChannelStep

LEMMA Invariant == Spec => []IInv
BY InvInit, InvNext, PTL DEF Spec

\* However often an event is delivered, recovered, claimed by several processes or
\* passed through a failing journal, it starts one turn
\* (_accept_channel_runtime_turn_impl).
THEOREM OneTurn == Spec => []OneTurnPerEvent
<1>1. IInv => OneTurnPerEvent
  <2> SUFFICES ASSUME IInv, NEW e \in Events PROVE turns[e] <= 1 BY DEF OneTurnPerEvent
  <2>1. turns[e] = 0 \/ turns[e] = 1 BY DEF IInv, TurnInv
  <2>2. CASE turns[e] = 0 BY <2>2
  <2>3. CASE turns[e] = 1 BY <2>3
  <2> QED BY <2>1, <2>2, <2>3
<1> QED BY <1>1, Invariant, PTL

\* The journal closes no event that nobody dealt with (complete_inbound), and no
\* failure report of a superseded claim, no recovery and no redelivery reopens
\* one that is closed (fail_inbound, recover_inbound).
THEOREM CompletedStays == Spec => CompletedIsFinal
<1> DEFINE Final == \A e \in Events :
                      /\ row[e] = "completed" => row'[e] = "completed"
                      /\ row'[e] = "completed" => e \in answered'
<1>1. IInv /\ [Next]_vars => [Final]_vars BY InvNext DEF Kept, IInv, DoneInv
<1> QED BY <1>1, Invariant, PTL DEF Spec, CompletedIsFinal
----------------------------------------------------------------------------
(* What the queues hold *)

LEMMA AppendSet ==
  ASSUME NEW S, NEW s \in Seq(S), NEW x \in S
  PROVE  Append(s, x) \in Seq(S) /\ ToSet(Append(s, x)) = ToSet(s) \cup {x}
BY DEF ToSet

LEMMA TailSet ==
  ASSUME NEW S, NEW s \in Seq(S), s # <<>>
  PROVE  /\ Head(s) \in S /\ Tail(s) \in Seq(S) /\ Len(Tail(s)) = Len(s) - 1
         /\ ToSet(s) = ToSet(Tail(s)) \cup {Head(s)}
<1>1. Head(s) = s[1] /\ Len(s) \in Nat \ {0} /\ DOMAIN s = 1..Len(s)
  OBVIOUS
<1>2. Head(s) \in S /\ Tail(s) \in Seq(S) /\ Len(Tail(s)) = Len(s) - 1
  OBVIOUS
<1>3. \A i \in 1..Len(Tail(s)) : Tail(s)[i] = s[i + 1]
  OBVIOUS
<1>4. ToSet(s) \subseteq ToSet(Tail(s)) \cup {Head(s)}
  <2> SUFFICES ASSUME NEW i \in DOMAIN s, i # 1 PROVE s[i] \in ToSet(Tail(s))
    BY <1>1 DEF ToSet
  <2>1. i - 1 \in 1..Len(Tail(s)) /\ Tail(s)[i - 1] = s[i] BY <1>1, <1>2, <1>3
  <2> QED BY <1>2, <2>1 DEF ToSet
<1>5. ToSet(Tail(s)) \cup {Head(s)} \subseteq ToSet(s)
  <2>1. ASSUME NEW i \in 1..Len(Tail(s)) PROVE Tail(s)[i] \in ToSet(s)
    <3>1. i + 1 \in DOMAIN s BY <1>1, <1>2
    <3> QED BY <1>3, <3>1 DEF ToSet
  <2> QED BY <1>1, <1>2, <2>1 DEF ToSet
<1> QED BY <1>2, <1>4, <1>5

LEMMA ConcatSet ==
  ASSUME NEW S, NEW s \in Seq(S), NEW t \in Seq(S)
  PROVE  s \o t \in Seq(S) /\ ToSet(s \o t) = ToSet(s) \cup ToSet(t)
<1>1. /\ s \o t \in Seq(S) /\ Len(s \o t) = Len(s) + Len(t)
      /\ \A i \in 1..Len(s) + Len(t) :
           (s \o t)[i] = IF i <= Len(s) THEN s[i] ELSE t[i - Len(s)]
  OBVIOUS
<1>2. Len(s) \in Nat /\ Len(t) \in Nat /\ DOMAIN s = 1..Len(s) /\ DOMAIN t = 1..Len(t)
      /\ DOMAIN (s \o t) = 1..Len(s) + Len(t)
  BY <1>1
<1>3. ToSet(s \o t) \subseteq ToSet(s) \cup ToSet(t)
  BY <1>1, <1>2 DEF ToSet
<1>4. ToSet(s) \subseteq ToSet(s \o t)
  <2> SUFFICES ASSUME NEW i \in DOMAIN s PROVE s[i] \in ToSet(s \o t) BY DEF ToSet
  <2>1. i \in DOMAIN (s \o t) /\ (s \o t)[i] = s[i] BY <1>1, <1>2
  <2> QED BY <2>1 DEF ToSet
<1>5. ToSet(t) \subseteq ToSet(s \o t)
  <2> SUFFICES ASSUME NEW i \in DOMAIN t PROVE t[i] \in ToSet(s \o t) BY DEF ToSet
  <2>1. Len(s) + i \in DOMAIN (s \o t) /\ (s \o t)[Len(s) + i] = t[i] BY <1>1, <1>2
  <2> QED BY <2>1 DEF ToSet
<1> QED BY <1>1, <1>3, <1>4, <1>5

\* An event that moves to the end is still there, and nothing else comes or goes.
LEMMA MovedSet ==
  ASSUME NEW S, NEW s \in Seq(S), NEW e \in ToSet(s)
  PROVE  LET m == Append(Without(s, e), e)
         IN  m \in Seq(S) /\ Len(m) = Len(s) /\ ToSet(m) = ToSet(s)
<1> DEFINE i == CHOOSE j \in DOMAIN s : s[j] = e
           a == SubSeq(s, 1, i - 1)
           b == SubSeq(s, i + 1, Len(s))
           w == a \o b
<1>1. i \in 1..Len(s) /\ s[i] = e /\ e \in S /\ Len(s) \in Nat /\ DOMAIN s = 1..Len(s)
  BY DEF ToSet
<1>2. Without(s, e) = w BY DEF Without, RemoveAt
<1> HIDE DEF i
<1>3. /\ a \in Seq(S) /\ Len(a) = i - 1 /\ \A j \in 1..(i - 1) : a[j] = s[j]
      /\ b \in Seq(S) /\ Len(b) = Len(s) - i /\ \A j \in 1..(Len(s) - i) : b[j] = s[i + j]
  <2>1. \A j \in 1..Len(s) : s[j] \in S OBVIOUS
  <2>2. /\ a \in Seq(S) /\ Len(a) = IF 1 <= i - 1 THEN i - 1 - 1 + 1 ELSE 0
        /\ \A j \in 1..i - 1 - 1 + 1 : a[j] = s[1 + j - 1]
    <3>1. \A j \in 1..i - 1 : s[j] \in S BY <1>1, <2>1
    <3>2. 1 \in Int /\ i - 1 \in Int BY <1>1
    <3> QED BY <3>1, <3>2, SubSeqProperties
  <2>3. /\ b \in Seq(S) /\ Len(b) = IF i + 1 <= Len(s) THEN Len(s) - (i + 1) + 1 ELSE 0
        /\ \A j \in 1..Len(s) - (i + 1) + 1 : b[j] = s[i + 1 + j - 1]
    <3>1. \A j \in i + 1..Len(s) : s[j] \in S BY <1>1, <2>1
    <3>2. i + 1 \in Int /\ Len(s) \in Int BY <1>1
    <3> QED BY <3>1, <3>2, SubSeqProperties
  <2> HIDE DEF a, b
  <2>4. Len(a) = i - 1 /\ \A j \in 1..(i - 1) : a[j] = s[j] BY <1>1, <2>2
  <2>5. Len(b) = Len(s) - i
    <3>1. CASE i + 1 <= Len(s) BY <1>1, <2>3, <3>1
    <3>2. CASE ~(i + 1 <= Len(s))
      <4>0. \A n \in Nat : \A k \in 1..n : ~(k + 1 <= n) => k = n OBVIOUS
      <4>1. i = Len(s) BY <1>1, <3>2, <4>0
      <4>2. Len(b) = 0 BY <2>3, <3>2
      <4> QED BY <1>1, <4>1, <4>2
    <3> QED BY <3>1, <3>2
  <2>6. ASSUME NEW j \in 1..(Len(s) - i) PROVE b[j] = s[i + j]
    <3>1. j \in 1..Len(s) - (i + 1) + 1 /\ i + 1 + j - 1 = i + j BY <1>1
    <3> QED BY <2>3, <3>1
  <2> QED BY <2>2, <2>3, <2>4, <2>5, <2>6
<1> HIDE DEF a, b
<1>4. w \in Seq(S) /\ Len(w) = Len(s) - 1 /\ ToSet(w) = ToSet(a) \cup ToSet(b)
  <2>1. w \in Seq(S) /\ ToSet(w) = ToSet(a) \cup ToSet(b) BY <1>3, ConcatSet
  <2>2. Len(w) = Len(a) + Len(b) BY <1>3
  <2> QED BY <1>1, <1>3, <2>1, <2>2
<1>5. ToSet(a) \cup ToSet(b) \cup {e} \subseteq ToSet(s)
  <2>1. ASSUME NEW j \in 1..(i - 1) PROVE a[j] \in ToSet(s)
    <3>1. j \in DOMAIN s BY <1>1
    <3> QED BY <1>3, <3>1 DEF ToSet
  <2>2. ASSUME NEW j \in 1..(Len(s) - i) PROVE b[j] \in ToSet(s)
    <3>1. i + j \in DOMAIN s BY <1>1
    <3> QED BY <1>3, <3>1 DEF ToSet
  <2> QED BY <1>3, <2>1, <2>2 DEF ToSet
<1>6. ToSet(s) \subseteq ToSet(a) \cup ToSet(b) \cup {e}
  <2> SUFFICES ASSUME NEW j \in 1..Len(s), j # i PROVE s[j] \in ToSet(a) \cup ToSet(b)
    BY <1>1 DEF ToSet
  <2>1. CASE j < i
    <3>1. j \in DOMAIN a /\ a[j] = s[j] BY <1>1, <1>3, <2>1
    <3> QED BY <3>1 DEF ToSet
  <2>2. CASE j > i
    <3>1. j - i \in DOMAIN b /\ b[j - i] = s[j] BY <1>1, <1>3, <2>2
    <3> QED BY <3>1 DEF ToSet
  <2> QED BY <1>1, <2>1, <2>2
<1> HIDE DEF w
<1>7. /\ Append(w, e) \in Seq(S) /\ Len(Append(w, e)) = Len(s)
      /\ ToSet(Append(w, e)) = ToSet(w) \cup {e}
  <2>1. Append(w, e) \in Seq(S) /\ ToSet(Append(w, e)) = ToSet(w) \cup {e}
    BY <1>1, <1>4, AppendSet
  <2>2. w \in Seq(S) /\ e \in S BY <1>1, <1>4
  <2>3. Len(Append(w, e)) = Len(w) + 1 BY <2>2, AppendProperties
  <2> QED BY <1>1, <1>4, <2>1, <2>3
<1> QED BY <1>2, <1>4, <1>5, <1>6, <1>7

\* A finite set as a sequence holds all of it.
LEMMA ListedSet ==
  ASSUME NEW S, IsFiniteSet(S)
  PROVE  SetToSeq(S) \in Seq(S) /\ ToSet(SetToSeq(S)) = S
<1> DEFINE n == Cardinality(S)
<1>1. n \in Nat /\ ExistsBijection(1..n, S) BY FS_CardinalityType
<1>2. \E f \in [1..n -> S] : IsInjective(f)
  BY <1>1 DEF ExistsBijection, Bijection, Injection, IsInjective
<1>3. SetToSeq(S) \in [1..n -> S] /\ IsInjective(SetToSeq(S)) BY <1>2 DEF SetToSeq
<1>4. SetToSeq(S) \in Injection(1..n, S) BY <1>3 DEF Injection, IsInjective
<1>5. Cardinality(1..n) = n BY <1>1, FS_Interval
<1>6. SetToSeq(S) \in Surjection(1..n, S) BY <1>4, <1>5, FS_Injection
<1> QED BY <1>1, <1>3, <1>6 DEF Surjection, ToSet

\* A redelivery that is refused leaves the passed events the same.
LEMMA TouchedSet ==
  ASSUME passed \in [Gateways -> Seq(Events)], NEW g \in Gateways, NEW e \in Events, Touch(g, e)
  PROVE  /\ passed' \in [Gateways -> Seq(Events)]
         /\ \A h \in Gateways : /\ Len(passed'[h]) = Len(passed[h])
                                /\ ToSet(passed'[h]) = ToSet(passed[h])
<1>1. CASE e \in ToSet(passed[g])
  <2> DEFINE m == Append(Without(passed[g], e), e)
  <2>1. passed' = [passed EXCEPT ![g] = m] BY <1>1 DEF Touch
  <2>2. passed[g] \in Seq(Events) OBVIOUS
  <2>3. m \in Seq(Events) /\ Len(m) = Len(passed[g]) /\ ToSet(m) = ToSet(passed[g])
    BY <1>1, <2>2, MovedSet
  <2> HIDE DEF m
  <2> QED BY <2>1, <2>3
<1>2. CASE e \notin ToSet(passed[g]) BY <1>2 DEF Touch
<1> QED BY <1>1, <1>2

\* The memory of passed events keeps its bound and takes the new one.
LEMMA RememberedSet ==
  ASSUME NEW s \in Seq(Events), Len(s) <= MaxPassed, NEW e \in Events
  PROVE  /\ Remembered(s, e) \in Seq(Events) /\ Len(Remembered(s, e)) <= MaxPassed
         /\ e \in ToSet(Remembered(s, e)) /\ ToSet(Remembered(s, e)) \subseteq ToSet(s) \cup {e}
<1>1. CASE Len(s) >= MaxPassed
  <2>1. s # <<>> BY <1>1
  <2>2. /\ Tail(s) \in Seq(Events) /\ Len(Tail(s)) = Len(s) - 1
        /\ ToSet(s) = ToSet(Tail(s)) \cup {Head(s)}
    BY <2>1, TailSet
  <2>3. Remembered(s, e) = Append(Tail(s), e) BY <1>1 DEF Remembered
  <2> DEFINE t == Tail(s)
  <2> HIDE DEF t
  <2>4. /\ Append(t, e) \in Seq(Events) /\ ToSet(Append(t, e)) = ToSet(t) \cup {e}
        /\ Len(Append(t, e)) = Len(t) + 1
    <3>1. t \in Seq(Events) BY <2>2 DEF t
    <3> QED BY <3>1, AppendSet, AppendProperties
  <2>5. Len(Append(t, e)) <= MaxPassed BY <2>2, <2>4 DEF t
  <2> QED BY <2>2, <2>3, <2>4, <2>5 DEF t
<1>2. CASE ~(Len(s) >= MaxPassed)
  <2>1. Remembered(s, e) = Append(s, e) BY <1>2 DEF Remembered
  <2>2. /\ Append(s, e) \in Seq(Events) /\ ToSet(Append(s, e)) = ToSet(s) \cup {e}
        /\ Len(Append(s, e)) = Len(s) + 1
    BY AppendSet, AppendProperties
  <2>3. Len(Append(s, e)) <= MaxPassed BY <1>2, <2>2
  <2> QED BY <2>1, <2>2, <2>3
<1> QED BY <1>1, <1>2

\* What recovery puts in the queue.
LEMMA RequeuedSet ==
  ASSUME NEW g
  PROVE  /\ SetToSeq(Requeued(g)) \in Seq(Events)
         /\ ToSet(SetToSeq(Requeued(g))) = Requeued(g) /\ Requeued(g) \subseteq Recoverable
         /\ Recoverable \subseteq Events
<1>1. Requeued(g) \subseteq Recoverable /\ Recoverable \subseteq Events
  BY DEF Requeued, Recoverable
<1>2. IsFiniteSet(Requeued(g)) BY <1>1, FS_Subset
<1>3. SetToSeq(Requeued(g)) \in Seq(Requeued(g)) /\ ToSet(SetToSeq(Requeued(g))) = Requeued(g)
  BY <1>2, ListedSet
<1> QED BY <1>1, <1>3

\* The head of the queue leaves it.
LEMMA ClaimedHead ==
  ASSUME TypeOK, NEW g \in Gateways, Claim(g)
  PROVE  /\ Head(queue[g]) \in Events /\ queue' \in [Gateways -> Seq(Events)]
         /\ ToSet(queue[g]) = ToSet(queue'[g]) \cup {Head(queue[g])}
         /\ \A h \in Gateways \ {g} : queue'[h] = queue[h]
<1>1. queue[g] \in Seq(Events) /\ queue[g] # <<>> /\ queue' = [queue EXCEPT ![g] = Tail(queue[g])]
  BY DEF TypeOK, Claim
<1>2. /\ Head(queue[g]) \in Events /\ Tail(queue[g]) \in Seq(Events)
      /\ ToSet(queue[g]) = ToSet(Tail(queue[g])) \cup {Head(queue[g])}
  BY <1>1, TailSet
<1> QED BY <1>1, <1>2 DEF TypeOK

----------------------------------------------------------------------------
(* Types *)

\* The loop and its claim have their types.
LoopTyped ==
  loop \in [Gateways -> [pc : {"off", "receive", "claimed", "finish", "dead"},
                         ev : Events, durable : BOOLEAN]]

\* An idle loop has a place and no durable claim.
LEMMA IdleTyped ==
  ASSUME NEW pc \in {"off", "receive", "dead"}
  PROVE  /\ Idle(pc) \in [pc : {"off", "receive", "claimed", "finish", "dead"},
                          ev : Events, durable : BOOLEAN]
         /\ Idle(pc).pc = pc /\ ~Idle(pc).durable
BY DEF Idle

\* An exception is counted up to the budget.
LEMMA RaisedTyped ==
  ASSUME TypeOK, NEW g \in Gateways, Raised(g)
  PROVE  LoopTyped' /\ errors' \in [Gateways -> 0..MaxErrors]
<1>1. LoopTyped' BY IdleTyped DEF Raised, TypeOK, LoopTyped
<1>2. CASE Spent(g) BY <1>1, <1>2 DEF Raised, TypeOK
<1>3. CASE ~Spent(g)
  <2>1. errors[g] \in 0..MaxErrors /\ ~(errors[g] >= MaxErrors) BY <1>3 DEF TypeOK, Spent
  <2>2. errors[g] + 1 \in 0..MaxErrors BY <2>1
  <2>3. errors' = [errors EXCEPT ![g] = errors[g] + 1] BY <1>3 DEF Raised
  <2> QED BY <1>1, <2>2, <2>3 DEF TypeOK
<1> QED BY <1>1, <1>2, <1>3

LEMMA TypeInit == Init => TypeOK
<1> SUFFICES ASSUME Init PROVE TypeOK OBVIOUS
<1>1. \A g \in Gateways : Len(passed[g]) <= MaxPassed BY DEF Init
<1>2. LoopTyped BY IdleTyped DEF Init, LoopTyped
<1> QED BY <1>1, <1>2 DEF Init, TypeOK, LoopTyped

LEMMA TypeNext == TypeOK /\ IInv /\ [Next]_vars => TypeOK'
<1> SUFFICES ASSUME TypeOK, IInv, [Next]_vars PROVE TypeOK' OBVIOUS
<1> USE DEF journal, memory, history
<1>1. /\ row' \in [Events -> {"none", "accepted", "processing", "completed"}]
      /\ claim' \in [Events -> Gateways \cup {NoOne}] /\ turns' \in [Events -> 0..2]
  BY InvNext DEF IInv, RowsTyped
<1>2. ASSUME NEW g \in Gateways, NEW e \in Events, Deliver(g, e) PROVE TypeOK'
  <2>1. /\ passed' \in [Gateways -> Seq(Events)]
        /\ \A h \in Gateways : Len(passed'[h]) = Len(passed[h])
    <3>1. CASE Touch(g, e) BY <3>1, TouchedSet DEF TypeOK
    <3>2. CASE UNCHANGED passed BY <3>2 DEF TypeOK
    <3> QED BY <1>2, <3>1, <3>2 DEF Deliver
  <2>2. queue' \in [Gateways -> Seq(Events)]
    <3>1. queue' = queue \/ queue' = [queue EXCEPT ![g] = Append(queue[g], e)]
      BY <1>2 DEF Deliver
    <3>2. Append(queue[g], e) \in Seq(Events) BY DEF TypeOK
    <3> QED BY <3>1, <3>2 DEF TypeOK
  <2>3. /\ marked' \in [Gateways -> SUBSET Events] /\ visible' \in [Gateways -> SUBSET Events]
        /\ known' \in [Gateways -> SUBSET Events]
    <3>1. known' \in [Gateways -> SUBSET Events] BY <1>2 DEF Deliver, TypeOK
    <3>2. marked' = marked \/ marked' = [marked EXCEPT ![g] = @ \cup {e}]
      BY <1>2 DEF Deliver
    <3>3. visible' = visible \/ visible' = [visible EXCEPT ![g] = @ \ {e}]
      BY <1>2 DEF Deliver
    <3>4. marked \in [Gateways -> SUBSET Events] /\ visible \in [Gateways -> SUBSET Events]
      BY DEF TypeOK
    <3>5. marked' \in [Gateways -> SUBSET Events]
      <4>1. CASE marked' = marked BY <3>4, <4>1
      <4>2. CASE marked' = [marked EXCEPT ![g] = @ \cup {e}]
        <5>1. marked[g] \cup {e} \in SUBSET Events BY <3>4
        <5> QED BY <3>4, <4>2, <5>1
      <4> QED BY <3>2, <4>1, <4>2
    <3>6. visible' \in [Gateways -> SUBSET Events]
      <4>1. CASE visible' = visible BY <3>4, <4>1
      <4>2. CASE visible' = [visible EXCEPT ![g] = @ \ {e}] BY <3>4, <4>2
      <4> QED BY <3>3, <4>1, <4>2
    <3> QED BY <3>1, <3>5, <3>6
  <2> QED BY <1>1, <1>2, <2>1, <2>2, <2>3 DEF Deliver, TypeOK
<1>3. ASSUME NEW g \in Gateways, Claim(g) PROVE TypeOK'
  <2> DEFINE e == Head(queue[g])
  <2>1. e \in Events /\ queue' \in [Gateways -> Seq(Events)] BY <1>3, ClaimedHead
  <2>2. /\ LoopTyped' /\ errors' \in [Gateways -> 0..MaxErrors]
        /\ passed' \in [Gateways -> Seq(Events)]
        /\ \A h \in Gateways : Len(passed'[h]) <= MaxPassed
        /\ marked' \in [Gateways -> SUBSET Events] /\ finished' \in [Gateways -> SUBSET Events]
    <3> HIDE DEF e
    <3>1. ASSUME NEW d \in BOOLEAN, HandOut(g, e, d) PROVE LoopTyped'
      BY <2>1, <3>1 DEF HandOut, TypeOK, LoopTyped
    <3>2. CASE ClaimJournaled(g, e)
      <4>1. CASE HandOut(g, e, TRUE) /\ UNCHANGED errors
        BY <3>1, <3>2, <4>1 DEF ClaimJournaled, TypeOK
      <4>2. CASE UNCHANGED <<loop, errors>>
        BY <3>2, <4>2 DEF ClaimJournaled, TypeOK, LoopTyped
      <4>3. CASE Raised(g) BY <3>2, <4>3, RaisedTyped DEF ClaimJournaled, TypeOK
      <4> QED BY <3>2, <4>1, <4>2, <4>3 DEF ClaimJournaled
    <3>3. CASE ClaimMarked(g, e)
      <4>1. marked' \in [Gateways -> SUBSET Events] /\ UNCHANGED errors
        BY <3>3 DEF ClaimMarked, Unmark, TypeOK
      <4>2. CASE UNCHANGED <<passed, finished>> /\ HandOut(g, e, TRUE)
        BY <3>1, <4>1, <4>2 DEF TypeOK
      <4>3. CASE UNCHANGED <<passed, finished, loop>>
        BY <4>1, <4>3 DEF TypeOK, LoopTyped
      <4>4. CASE /\ passed' = [passed EXCEPT ![g] = Remembered(@, e)]
                 /\ finished' = [finished EXCEPT ![g] = @ \ (ToSet(passed[g]) \ ToSet(passed'[g]))]
                 /\ HandOut(g, e, FALSE)
        <5>1. passed[g] \in Seq(Events) /\ Len(passed[g]) <= MaxPassed BY DEF TypeOK
        <5>2. Remembered(passed[g], e) \in Seq(Events) /\ Len(Remembered(passed[g], e)) <= MaxPassed
          BY <2>1, <5>1, RememberedSet
        <5>3. /\ passed' \in [Gateways -> Seq(Events)]
              /\ \A h \in Gateways : Len(passed'[h]) <= MaxPassed
          BY <4>4, <5>2 DEF TypeOK
        <5>4. finished' \in [Gateways -> SUBSET Events] BY <4>4 DEF TypeOK
        <5> QED BY <3>1, <4>1, <4>4, <5>3, <5>4 DEF TypeOK
      <4> QED BY <3>3, <4>2, <4>3, <4>4 DEF ClaimMarked
    <3>4. CASE ClaimPassed(g, e)
      <4>1. Touch(g, e) /\ UNCHANGED <<marked, finished, loop, errors>>
        BY <3>4 DEF ClaimPassed
      <4>2. /\ passed' \in [Gateways -> Seq(Events)]
            /\ \A h \in Gateways : Len(passed'[h]) = Len(passed[h])
        BY <2>1, <4>1, TouchedSet DEF TypeOK
      <4> QED BY <4>1, <4>2 DEF TypeOK, LoopTyped
    <3> QED BY <1>3, <3>2, <3>3, <3>4 DEF Claim, e
  <2> QED BY <1>1, <1>3, <2>1, <2>2 DEF Claim, TypeOK, LoopTyped
<1>4. ASSUME NEW g \in Gateways, Answer(g) \/ AcceptTurn(g) PROVE TypeOK'
  <2>1. loop[g].ev \in Events /\ loop' = [loop EXCEPT ![g].pc = "finish"]
    BY <1>4 DEF Answer, AcceptTurn, TypeOK
  <2>2. LoopTyped'
    <3> DEFINE R == [pc : {"off", "receive", "claimed", "finish", "dead"},
                     ev : Events, durable : BOOLEAN]
    <3>1. \A r \in R : [r EXCEPT !.pc = "finish"] \in R OBVIOUS
    <3> QED BY <2>1, <3>1 DEF TypeOK, LoopTyped
  <2>3. receipts' \subseteq Events /\ answered' \subseteq Events
    BY <1>4, <2>1 DEF Answer, AcceptTurn, TypeOK
  <2> QED BY <1>1, <1>4, <2>2, <2>3 DEF Answer, AcceptTurn, TypeOK, LoopTyped
<1>5. ASSUME NEW g \in Gateways, Fail(g) \/ Complete(g) \/ Abandon(g) PROVE TypeOK'
  <2>1. LoopTyped' /\ errors' \in [Gateways -> 0..MaxErrors]
    <3>1. CASE Raised(g) BY <3>1, RaisedTyped
    <3>2. CASE loop' = [loop EXCEPT ![g] = Idle("receive")] /\ UNCHANGED errors
      BY <3>2, IdleTyped DEF TypeOK, LoopTyped
    <3> QED BY <1>5, <3>1, <3>2 DEF Fail, Complete, Abandon
  <2>2. loop[g].ev \in Events BY DEF TypeOK
  <2>3. finished' \in [Gateways -> SUBSET Events]
    BY <1>5, <2>2 DEF Fail, Complete, Abandon, TypeOK
  <2> QED BY <1>1, <1>5, <2>1, <2>3 DEF Fail, Complete, Abandon, TypeOK, LoopTyped
<1>6. ASSUME NEW g \in Gateways, Start(g) PROVE TypeOK'
  <2>1. PICK fails \in BOOLEAN :
          /\ lease' = [owner |-> g, live |-> ~fails]
          /\ chan' = [chan EXCEPT ![g] = IF fails THEN "idle" ELSE "running"]
          /\ loop' = [loop EXCEPT ![g] = Idle(IF fails THEN "off" ELSE "receive")]
    BY <1>6 DEF Start, May
  <2>2. LoopTyped' BY <2>1, IdleTyped DEF TypeOK, LoopTyped
  <2>3. /\ queue' \in [Gateways -> Seq(Events)] /\ visible' \in [Gateways -> SUBSET Events]
        /\ known' \in [Gateways -> SUBSET Events]
    <3>1. CASE UNCHANGED <<queue, visible, known>> BY <3>1 DEF TypeOK
    <3>2. CASE /\ queue' = [queue EXCEPT ![g] = @ \o SetToSeq(Requeued(g))]
               /\ visible' = [visible EXCEPT ![g] = (@ \cup Recoverable) \ Requeued(g)]
               /\ known' = [known EXCEPT ![g] =
                              IF Adapter = "dedupe" THEN @ \cup Recoverable ELSE @]
      <4> DEFINE q == SetToSeq(Requeued(g))
      <4>1. q \in Seq(Events) /\ Recoverable \subseteq Events BY RequeuedSet
      <4> HIDE DEF q
      <4>2. queue[g] \in Seq(Events) BY DEF TypeOK
      <4>3. queue[g] \o q \in Seq(Events) BY <4>1, <4>2, ConcatSet
      <4>4. queue' = [queue EXCEPT ![g] = queue[g] \o q] BY <3>2 DEF q
      <4>5. /\ visible' \in [Gateways -> SUBSET Events] /\ known' \in [Gateways -> SUBSET Events]
        BY <3>2, <4>1 DEF TypeOK
      <4> QED BY <4>3, <4>4, <4>5 DEF TypeOK
    <3> QED BY <1>6, <3>1, <3>2 DEF Start, Recover
  <2> QED BY <1>1, <1>6, <2>1, <2>2, <2>3 DEF Start, TypeOK, LoopTyped
<1>7. ASSUME NEW g \in Gateways, Stop(g) PROVE TypeOK'
  <2>1. LoopTyped' BY <1>7, IdleTyped DEF Stop, TypeOK, LoopTyped
  <2>2. /\ queue' \in [Gateways -> Seq(Events)] /\ known' \in [Gateways -> SUBSET Events]
    BY <1>7 DEF Stop, TypeOK
  <2>3. lease' \in [owner : Gateways \cup {NoOne}, live : BOOLEAN] BY <1>7 DEF Stop, TypeOK
  <2>4. errors' \in [Gateways -> 0..MaxErrors] BY <1>7 DEF Stop, TypeOK
  <2> QED BY <1>1, <1>7, <2>1, <2>2, <2>3, <2>4 DEF Stop, TypeOK, LoopTyped
<1>8. ASSUME NEW g \in Gateways, Crash(g) PROVE TypeOK'
  <2>1. LoopTyped' BY <1>8, IdleTyped DEF Crash, TypeOK, LoopTyped
  <2>2. /\ queue' \in [Gateways -> Seq(Events)] /\ passed' \in [Gateways -> Seq(Events)]
        /\ \A h \in Gateways : Len(passed'[h]) <= MaxPassed
    <3>1. <<>> \in Seq(Events) /\ Len(<<>>) = 0 OBVIOUS
    <3>2. \A h \in Gateways : passed'[h] = <<>> \/ passed'[h] = passed[h]
      BY <1>8 DEF Crash, TypeOK
    <3> QED BY <1>8, <3>1, <3>2 DEF Crash, TypeOK
  <2>3. /\ marked' \in [Gateways -> SUBSET Events] /\ visible' \in [Gateways -> SUBSET Events]
        /\ known' \in [Gateways -> SUBSET Events] /\ finished' \in [Gateways -> SUBSET Events]
    BY <1>8 DEF Crash, TypeOK
  <2>4. crashes' \in 0..MaxCrashes /\ errors' \in [Gateways -> 0..MaxErrors]
    BY <1>8 DEF Crash, TypeOK
  <2>5. lease' \in [owner : Gateways \cup {NoOne}, live : BOOLEAN] BY <1>8 DEF Crash, TypeOK
  <2> QED BY <1>1, <1>8, <2>1, <2>2, <2>3, <2>4, <2>5 DEF Crash, TypeOK, LoopTyped
<1>9. ASSUME NEW g \in Gateways, Renew(g) PROVE TypeOK'
  <2>1. lease' \in [owner : Gateways \cup {NoOne}, live : BOOLEAN] BY <1>9 DEF Renew, TypeOK
  <2> QED BY <1>1, <1>9, <2>1 DEF Renew, TypeOK
<1>10. CASE Lapse BY <1>10 DEF Lapse, TypeOK
<1>11. CASE UNCHANGED vars BY <1>11 DEF vars, TypeOK
<1> QED
  BY <1>2, <1>3, <1>4, <1>5, <1>6, <1>7, <1>8, <1>9, <1>10, <1>11
  DEF Next, LoopStep, ChannelStep

\* Every variable keeps its type: the memory of passed events stays within its
\* bound (_max_claimed_unjournaled_events) and a loop within its budget of
\* exceptions (_dispatch_with_retry).
THEOREM TypeCorrect == Spec => []TypeOK
BY TypeInit, TypeNext, Invariant, PTL DEF Spec

----------------------------------------------------------------------------
(* The memory sets *)

\* An event passed through has lost its marker.
MarkInv == \A g \in Gateways : marked[g] \cap ToSet(passed[g]) = {}

\* Without a durable claim the event at hand is a passed one.
ClaimInv ==
  \A g \in Gateways :
    IF loop[g].pc \in {"claimed", "finish"}
      THEN loop[g].durable \/ loop[g].ev \in ToSet(passed[g])
      ELSE ~loop[g].durable

\* What a process has completed is closed in the journal or remembered as passed.
FinishedInv ==
  \A g \in Gateways : \A e \in finished[g] : row[e] = "completed" \/ e \in ToSet(passed[g])

MemoryInv == MarkInv /\ ClaimInv /\ FinishedInv

\* The loop of h rests, starts a durable dispatch, or goes on with the one it has.
LoopMoves(h) ==
  \/ loop'[h] = loop[h]
  \/ loop'[h].pc \notin {"claimed", "finish"} /\ ~loop'[h].durable
  \/ loop'[h].pc \in {"claimed", "finish"} /\ loop'[h].durable
  \/ /\ loop[h].pc \in {"claimed", "finish"} /\ loop'[h].pc \in {"claimed", "finish"}
     /\ loop'[h].ev = loop[h].ev /\ loop'[h].durable = loop[h].durable

\* Steps that let no event into or out of the memory.
LEMMA MemoryRests ==
  ASSUME MemoryInv, Kept, LoopTyped',
         finished \in [Gateways -> SUBSET Events],
         \A h \in Gateways : /\ ToSet(passed'[h]) = ToSet(passed[h])
                             /\ marked'[h] \subseteq marked[h]
                             /\ finished'[h] \subseteq finished[h]
                             /\ LoopMoves(h)
  PROVE  MemoryInv'
<1>1. MarkInv' BY DEF MemoryInv, MarkInv
<1>2. ClaimInv'
  <2> SUFFICES ASSUME NEW h \in Gateways
               PROVE  IF loop'[h].pc \in {"claimed", "finish"}
                        THEN loop'[h].durable \/ loop'[h].ev \in ToSet(passed'[h])
                        ELSE ~loop'[h].durable
    BY DEF ClaimInv
  <2>1. /\ ToSet(passed'[h]) = ToSet(passed[h]) /\ LoopMoves(h)
        /\ IF loop[h].pc \in {"claimed", "finish"}
             THEN loop[h].durable \/ loop[h].ev \in ToSet(passed[h])
             ELSE ~loop[h].durable
    BY DEF MemoryInv, ClaimInv
  <2> QED BY <2>1 DEF LoopMoves
<1>3. FinishedInv' BY DEF MemoryInv, FinishedInv, Kept
<1> QED BY <1>1, <1>2, <1>3 DEF MemoryInv

LEMMA MemoryInit == Init => MemoryInv
<1> SUFFICES ASSUME Init PROVE MemoryInv OBVIOUS
<1>1. MarkInv /\ FinishedInv BY DEF Init, MarkInv, FinishedInv
<1>2. ClaimInv BY IdleTyped DEF Init, ClaimInv
<1> QED BY <1>1, <1>2 DEF MemoryInv

LEMMA MemoryNext == TypeOK /\ IInv /\ MemoryInv /\ [Next]_vars => MemoryInv'
<1> SUFFICES ASSUME TypeOK, IInv, MemoryInv, [Next]_vars PROVE MemoryInv' OBVIOUS
<1> USE DEF journal, memory, history
<1>0. /\ Kept /\ LoopTyped' /\ TypeOK'
      /\ finished \in [Gateways -> SUBSET Events] /\ marked \in [Gateways -> SUBSET Events]
      /\ passed \in [Gateways -> Seq(Events)] /\ LoopTyped
  BY InvNext, TypeNext DEF TypeOK, LoopTyped
<1>1. ASSUME \A h \in Gateways : /\ ToSet(passed'[h]) = ToSet(passed[h])
                                 /\ marked'[h] \subseteq marked[h]
                                 /\ finished'[h] \subseteq finished[h]
                                 /\ LoopMoves(h)
      PROVE  MemoryInv'
  BY <1>0, <1>1, MemoryRests
\* The dispatch of g comes to rest or goes on, and the memory stays.
<1>2. ASSUME NEW g \in Gateways, UNCHANGED <<passed, marked, finished>>,
             \/ \E pc \in {"off", "receive", "dead"} : loop' = [loop EXCEPT ![g] = Idle(pc)]
             \/ \E e \in Events : HandOut(g, e, TRUE)
             \/ loop' = loop
      PROVE  MemoryInv'
  <2>1. ASSUME NEW h \in Gateways PROVE LoopMoves(h)
    <3>1. CASE \E pc \in {"off", "receive", "dead"} : loop' = [loop EXCEPT ![g] = Idle(pc)]
      <4>1. PICK pc \in {"off", "receive", "dead"} : loop' = [loop EXCEPT ![g] = Idle(pc)]
        BY <3>1
      <4>2. loop'[h] = loop[h] \/ loop'[h] = Idle(pc) BY <1>0, <4>1 DEF LoopTyped
      <4> QED BY <4>2, IdleTyped DEF LoopMoves
    <3>2. CASE \E e \in Events : HandOut(g, e, TRUE)
      <4>1. loop'[h] = loop[h] \/ (loop'[h].pc = "claimed" /\ loop'[h].durable)
        BY <1>0, <3>2 DEF HandOut, LoopTyped
      <4> QED BY <4>1 DEF LoopMoves
    <3>3. CASE loop' = loop BY <3>3 DEF LoopMoves
    <3> QED BY <1>2, <3>1, <3>2, <3>3
  <2> QED BY <1>1, <1>2, <2>1
<1>3. ASSUME NEW g \in Gateways, NEW e \in Events, Deliver(g, e) PROVE MemoryInv'
  <2>1. UNCHANGED <<loop, finished>> BY <1>3 DEF Deliver
  <2>2. CASE Touch(g, e) /\ UNCHANGED marked
    <3>1. \A h \in Gateways : ToSet(passed'[h]) = ToSet(passed[h]) BY <1>0, <2>2, TouchedSet
    <3> QED BY <1>1, <2>1, <2>2, <3>1 DEF LoopMoves
  <2>3. CASE UNCHANGED <<marked, passed>> BY <1>2, <2>1, <2>3
  <2>4. CASE /\ ~Pending(g, e) /\ UNCHANGED passed
             /\ marked' = [marked EXCEPT ![g] = @ \cup {e}]
    <3>1. MarkInv' BY <1>0, <2>4 DEF Pending, MemoryInv, MarkInv
    <3>2. ClaimInv' BY <2>1, <2>4 DEF MemoryInv, ClaimInv
    <3>3. FinishedInv' BY <1>0, <2>1, <2>4 DEF Kept, MemoryInv, FinishedInv
    <3> QED BY <3>1, <3>2, <3>3 DEF MemoryInv
  <2> QED BY <1>3, <2>2, <2>3, <2>4 DEF Deliver
<1>4. ASSUME NEW g \in Gateways, Claim(g) PROVE MemoryInv'
  <2> DEFINE e == Head(queue[g])
  <2>1. e \in Events BY <1>4, ClaimedHead
  <2> HIDE DEF e
  <2>2. CASE ClaimJournaled(g, e)
    BY <1>2, <2>1, <2>2 DEF ClaimJournaled, Raised
  <2>3. CASE ClaimMarked(g, e)
    <3>1. marked' = [marked EXCEPT ![g] = @ \ {e}] BY <2>3 DEF ClaimMarked, Unmark
    <3>2. CASE UNCHANGED <<passed, finished>> /\ (HandOut(g, e, TRUE) \/ loop' = loop)
      <4>1. \A h \in Gateways : LoopMoves(h)
        BY <1>0, <3>2 DEF HandOut, LoopMoves, LoopTyped
      <4> QED BY <1>0, <1>1, <3>1, <3>2, <4>1
    <3>3. CASE /\ passed' = [passed EXCEPT ![g] = Remembered(@, e)]
               /\ finished' = [finished EXCEPT ![g] = @ \ (ToSet(passed[g]) \ ToSet(passed'[g]))]
               /\ HandOut(g, e, FALSE)
      <4>1. passed[g] \in Seq(Events) /\ Len(passed[g]) <= MaxPassed BY DEF TypeOK
      <4>2. /\ e \in ToSet(Remembered(passed[g], e))
            /\ ToSet(Remembered(passed[g], e)) \subseteq ToSet(passed[g]) \cup {e}
        BY <2>1, <4>1, RememberedSet
      <4>3. passed'[g] = Remembered(passed[g], e) BY <1>0, <3>3
      <4>4. \A h \in Gateways \ {g} : passed'[h] = passed[h] BY <1>0, <3>3
      <4>5. MarkInv'
        <5>1. marked'[g] \cap ToSet(passed'[g]) = {}
          BY <1>0, <3>1, <4>2, <4>3 DEF MemoryInv, MarkInv
        <5>2. ASSUME NEW h \in Gateways \ {g} PROVE marked'[h] \cap ToSet(passed'[h]) = {}
          <6>1. marked'[h] = marked[h] /\ passed'[h] = passed[h] BY <1>0, <3>1, <4>4
          <6> QED BY <6>1 DEF MemoryInv, MarkInv
        <5> QED BY <5>1, <5>2 DEF MarkInv
      <4>6. ClaimInv'
        <5>1. /\ loop'[g].pc = "claimed" /\ loop'[g].ev = e
              /\ \A h \in Gateways \ {g} : loop'[h] = loop[h]
          BY <1>0, <3>3 DEF HandOut, LoopTyped
        <5> QED BY <4>2, <4>3, <4>4, <5>1 DEF MemoryInv, ClaimInv
      <4>7. FinishedInv'
        <5>1. ASSUME NEW f \in finished'[g] PROVE row'[f] = "completed" \/ f \in ToSet(passed'[g])
          <6>1. f \in finished[g] /\ (f \in ToSet(passed[g]) => f \in ToSet(passed'[g]))
            BY <1>0, <3>3
          <6> QED BY <1>0, <6>1 DEF Kept, MemoryInv, FinishedInv
        <5>2. ASSUME NEW h \in Gateways \ {g}, NEW f \in finished'[h]
              PROVE  row'[f] = "completed" \/ f \in ToSet(passed'[h])
          <6>1. f \in finished[h] /\ passed'[h] = passed[h] BY <1>0, <3>3, <4>4
          <6> QED BY <1>0, <6>1 DEF Kept, MemoryInv, FinishedInv
        <5> QED BY <5>1, <5>2 DEF FinishedInv
      <4> QED BY <4>5, <4>6, <4>7 DEF MemoryInv
    <3> QED BY <2>3, <3>2, <3>3 DEF ClaimMarked
  <2>4. CASE ClaimPassed(g, e)
    <3>1. UNCHANGED <<marked, finished, loop>> BY <2>4 DEF ClaimPassed
    <3>2. \A h \in Gateways : ToSet(passed'[h]) = ToSet(passed[h])
      BY <1>0, <2>1, <2>4, TouchedSet DEF ClaimPassed
    <3> QED BY <1>1, <3>1, <3>2 DEF LoopMoves
  <2> QED BY <1>4, <2>2, <2>3, <2>4 DEF Claim, e
<1>5. ASSUME NEW g \in Gateways, Answer(g) \/ AcceptTurn(g) PROVE MemoryInv'
  <2>1. /\ loop[g].pc = "claimed" /\ loop' = [loop EXCEPT ![g].pc = "finish"]
        /\ UNCHANGED <<passed, marked, finished>>
    BY <1>5 DEF Answer, AcceptTurn
  <2>2. ASSUME NEW h \in Gateways PROVE LoopMoves(h)
    <3>1. CASE h = g
      <4>1. loop'[g] = [loop[g] EXCEPT !.pc = "finish"] BY <1>0, <2>1 DEF LoopTyped
      <4>2. loop[g] \in [pc : {"off", "receive", "claimed", "finish", "dead"},
                         ev : Events, durable : BOOLEAN]
        BY <1>0 DEF LoopTyped
      <4>3. /\ loop'[g].pc = "finish" /\ loop'[g].ev = loop[g].ev
            /\ loop'[g].durable = loop[g].durable
        BY <4>1, <4>2
      <4> QED BY <2>1, <3>1, <4>3 DEF LoopMoves
    <3>2. CASE h # g
      <4>1. loop'[h] = loop[h] BY <1>0, <2>1, <3>2 DEF LoopTyped
      <4> QED BY <4>1 DEF LoopMoves
    <3> QED BY <3>1, <3>2
  <2> QED BY <1>1, <2>1, <2>2
<1>6. ASSUME NEW g \in Gateways, Fail(g) \/ Abandon(g) PROVE MemoryInv'
  BY <1>2, <1>6 DEF Fail, Abandon, Raised
<1>7. ASSUME NEW g \in Gateways, Complete(g) PROVE MemoryInv'
  <2> DEFINE e == loop[g].ev
  <2>1. /\ loop[g].pc = "finish" /\ loop' = [loop EXCEPT ![g] = Idle("receive")]
        /\ UNCHANGED <<passed, marked>>
        /\ OwnsClaim(g, e) => SetRow(e, "completed", NoOne)
        /\ finished' = [finished EXCEPT ![g] =
                          IF loop[g].durable /\ ~OwnsClaim(g, e) THEN @ ELSE @ \cup {e}]
    BY <1>7 DEF Complete
  <2>2. e \in Events /\ row \in [Events -> {"none", "accepted", "processing", "completed"}]
    BY DEF TypeOK
  <2>3. loop[g].durable \/ e \in ToSet(passed[g]) BY <2>1 DEF MemoryInv, ClaimInv
  <2>4. MarkInv' BY <2>1 DEF MemoryInv, MarkInv
  <2>5. ClaimInv'
    <3>1. /\ loop'[g].pc = "receive" /\ ~loop'[g].durable
          /\ \A h \in Gateways \ {g} : loop'[h] = loop[h]
      BY <1>0, <2>1, IdleTyped DEF LoopTyped
    <3> QED BY <2>1, <3>1 DEF MemoryInv, ClaimInv
  <2>6. FinishedInv'
    <3> HIDE DEF e
    <3>1. CASE loop[g].durable /\ ~OwnsClaim(g, e)
      BY <1>0, <2>1, <3>1 DEF Kept, MemoryInv, FinishedInv
    <3>2. CASE OwnsClaim(g, e)
      <4>1. row'[e] = "completed" BY <2>1, <2>2, <3>2 DEF SetRow
      <4>2. \A h \in Gateways : finished'[h] \subseteq finished[h] \cup {e} BY <1>0, <2>1
      <4> QED BY <1>0, <2>1, <4>1, <4>2 DEF Kept, MemoryInv, FinishedInv
    <3>3. CASE ~loop[g].durable
      <4>1. e \in ToSet(passed'[g]) BY <2>1, <2>3, <3>3
      <4>2. /\ finished'[g] \subseteq finished[g] \cup {e}
            /\ \A h \in Gateways \ {g} : finished'[h] = finished[h]
        BY <1>0, <2>1
      <4> QED BY <1>0, <2>1, <4>1, <4>2 DEF Kept, MemoryInv, FinishedInv
    <3> QED BY <3>1, <3>2, <3>3
  <2> QED BY <2>4, <2>5, <2>6 DEF MemoryInv
<1>8. ASSUME NEW g \in Gateways, Start(g) \/ Stop(g) PROVE MemoryInv'
  <2>1. UNCHANGED <<passed, marked, finished>> BY <1>8 DEF Start, Stop
  <2>2. \E pc \in {"off", "receive", "dead"} : loop' = [loop EXCEPT ![g] = Idle(pc)]
    BY <1>8 DEF Start, Stop
  <2> QED BY <1>2, <2>1, <2>2
<1>9. ASSUME NEW g \in Gateways, Crash(g) PROVE MemoryInv'
  <2>1. /\ marked' = [marked EXCEPT ![g] = {}] /\ passed' = [passed EXCEPT ![g] = <<>>]
        /\ finished' = [finished EXCEPT ![g] = {}] /\ loop' = [loop EXCEPT ![g] = Idle("off")]
    BY <1>9 DEF Crash
  <2>2. MarkInv' BY <1>0, <2>1 DEF MemoryInv, MarkInv
  <2>3. ClaimInv'
    <3>1. loop'[g].pc = "off" /\ ~loop'[g].durable
      BY <1>0, <2>1, IdleTyped DEF LoopTyped
    <3>2. \A h \in Gateways \ {g} : loop'[h] = loop[h] /\ passed'[h] = passed[h]
      BY <1>0, <2>1 DEF LoopTyped
    <3> QED BY <3>1, <3>2 DEF MemoryInv, ClaimInv
  <2>4. FinishedInv' BY <1>0, <2>1 DEF Kept, MemoryInv, FinishedInv
  <2> QED BY <2>2, <2>3, <2>4 DEF MemoryInv
<1>10. ASSUME NEW g \in Gateways, Renew(g) PROVE MemoryInv'
  BY <1>2, <1>10 DEF Renew
<1>11. CASE Lapse \/ UNCHANGED vars
  <2>1. UNCHANGED <<passed, marked, finished, loop>> BY <1>11 DEF Lapse, vars
  <2> QED BY <1>1, <2>1 DEF LoopMoves
<1> QED
  BY <1>3, <1>4, <1>5, <1>6, <1>7, <1>8, <1>9, <1>10, <1>11
  DEF Next, LoopStep, ChannelStep

LEMMA MemoryInvariant == Spec => [](TypeOK /\ IInv /\ MemoryInv)
BY TypeInit, TypeNext, InvInit, InvNext, MemoryInit, MemoryNext, PTL DEF Spec

\* What a process has completed it does not claim from the journal again, however
\* often the event is redelivered, recovered, taken over or passed through a
\* failing journal (accept_inbound, claim_inbound): the row is closed, or the
\* event is among the passed ones, which the claim looks up first.
THEOREM CompletedClaimedOnce == Spec => CompletedOnce
<1> DEFINE Once == \A g \in Gateways : \A e \in finished[g] :
                     loop[g].pc = "receive" /\ loop'[g].durable => loop'[g].ev # e
<1>1. TypeOK /\ IInv /\ MemoryInv /\ [Next]_vars => [Once]_vars
  <2> SUFFICES ASSUME TypeOK, IInv, MemoryInv, Next,
                      NEW g \in Gateways, NEW e \in finished[g],
                      loop[g].pc = "receive", loop'[g].durable, loop'[g].ev = e
               PROVE  FALSE
    OBVIOUS
  <2>0. /\ loop \in [Gateways -> [pc : {"off", "receive", "claimed", "finish", "dead"},
                                  ev : Events, durable : BOOLEAN]]
        /\ ~loop[g].durable
        /\ row[e] = "completed" \/ e \in ToSet(passed[g])
    BY DEF TypeOK, MemoryInv, ClaimInv, FinishedInv
  <2>1. ASSUME NEW h \in Gateways, NEW pc \in {"off", "receive", "dead"},
               loop' = [loop EXCEPT ![h] = Idle(pc)]
        PROVE  FALSE
    <3>1. loop'[g] = loop[g] \/ loop'[g] = Idle(pc) BY <2>0, <2>1
    <3> QED BY <2>0, <3>1, IdleTyped
  <2>2. ASSUME loop'[g] = loop[g] PROVE FALSE BY <2>0, <2>2
  <2>3. ASSUME NEW h \in Gateways, Claim(h) PROVE FALSE
    <3> DEFINE f == Head(queue[h])
    <3>1. CASE h # g
      BY <2>0, <2>1, <2>2, <2>3, <3>1
      DEF Claim, ClaimJournaled, ClaimMarked, ClaimPassed, HandOut, Raised
    <3>2. CASE h = g
      <4>1. CASE HandOut(g, f, TRUE) /\ row[f] # "completed" /\ f \notin ToSet(passed[g])
        <5>1. loop'[g].ev = f BY <2>0, <4>1 DEF HandOut
        <5> QED BY <2>0, <4>1, <5>1
      <4>2. CASE HandOut(g, f, FALSE)
        <5>1. ~loop'[g].durable BY <2>0, <4>2 DEF HandOut
        <5> QED BY <5>1
      <4>3. CASE loop' = loop BY <2>2, <4>3
      <4>4. CASE Raised(g) BY <2>1, <4>4 DEF Raised
      <4>5. \/ ClaimJournaled(g, f) \/ ClaimMarked(g, f) \/ ClaimPassed(g, f)
        BY <2>3, <3>2 DEF Claim
      <4>6. CASE ClaimJournaled(g, f)
        BY <4>1, <4>3, <4>4, <4>6 DEF ClaimJournaled, Pending
      <4>7. CASE ClaimMarked(g, f)
        BY <4>1, <4>2, <4>3, <4>7 DEF ClaimMarked
      <4>8. CASE ClaimPassed(g, f) BY <4>3, <4>8 DEF ClaimPassed
      <4> QED BY <4>5, <4>6, <4>7, <4>8
    <3> QED BY <3>1, <3>2
  <2>4. ASSUME NEW h \in Gateways, Answer(h) \/ AcceptTurn(h) PROVE FALSE
    <3>1. loop[h].pc = "claimed" /\ loop' = [loop EXCEPT ![h].pc = "finish"]
      BY <2>4 DEF Answer, AcceptTurn
    <3>2. h # g BY <3>1
    <3> QED BY <2>0, <2>2, <3>1, <3>2
  <2>5. ASSUME NEW h \in Gateways,
               Fail(h) \/ Complete(h) \/ Abandon(h) \/ Start(h) \/ Stop(h) \/ Crash(h)
        PROVE  FALSE
    <3>1. \E pc \in {"off", "receive", "dead"} : loop' = [loop EXCEPT ![h] = Idle(pc)]
      BY <2>5 DEF Fail, Complete, Abandon, Start, Stop, Crash, Raised
    <3> QED BY <2>1, <3>1
  <2>6. CASE \/ \E h \in Gateways : Renew(h)
             \/ \E h \in Gateways, d \in Events : Deliver(h, d)
             \/ Lapse
    BY <2>2, <2>6 DEF Renew, Deliver, Lapse
  <2> QED BY <2>3, <2>4, <2>5, <2>6 DEF Next, LoopStep, ChannelStep
<1> QED BY <1>1, MemoryInvariant, PTL DEF Spec, CompletedOnce

\* While every restart keeps the adapter, no marker outlives its event in the queue.
LEMMA MarkersNext ==
  "rebuild" \notin Faults /\ TypeOK /\ MemoryInv /\ MarkersQueued /\ [Next]_vars => MarkersQueued'
<1> SUFFICES ASSUME "rebuild" \notin Faults, TypeOK, MemoryInv, MarkersQueued, [Next]_vars
             PROVE  MarkersQueued'
  OBVIOUS
<1> USE DEF journal, memory, history
<1>0. /\ queue \in [Gateways -> Seq(Events)] /\ marked \in [Gateways -> SUBSET Events]
      /\ \A h \in Gateways : marked[h] \subseteq ToSet(queue[h])
  BY DEF TypeOK, MarkersQueued
<1>1. ASSUME NEW g \in Gateways, NEW e \in Events, Deliver(g, e) PROVE MarkersQueued'
  <2>1. \/ UNCHANGED <<queue, marked>>
        \/ /\ queue' = [queue EXCEPT ![g] = Append(queue[g], e)]
           /\ marked' = marked \/ marked' = [marked EXCEPT ![g] = @ \cup {e}]
    BY <1>1 DEF Deliver
  <2>2. CASE UNCHANGED <<queue, marked>> BY <2>2 DEF MarkersQueued
  <2>3. CASE /\ queue' = [queue EXCEPT ![g] = Append(queue[g], e)]
             /\ marked' = marked \/ marked' = [marked EXCEPT ![g] = @ \cup {e}]
    <3>1. ToSet(queue'[g]) = ToSet(queue[g]) \cup {e} BY <1>0, <2>3, AppendSet
    <3>2. marked'[g] \subseteq marked[g] \cup {e} BY <1>0, <2>3
    <3>3. \A h \in Gateways \ {g} : queue'[h] = queue[h] /\ marked'[h] = marked[h]
      BY <1>0, <2>3
    <3> QED BY <1>0, <3>1, <3>2, <3>3 DEF MarkersQueued
  <2> QED BY <2>1, <2>2, <2>3
<1>2. ASSUME NEW g \in Gateways, Claim(g) PROVE MarkersQueued'
  <2> DEFINE e == Head(queue[g])
  <2>1. /\ ToSet(queue[g]) = ToSet(queue'[g]) \cup {e}
        /\ \A h \in Gateways \ {g} : queue'[h] = queue[h]
    BY <1>2, ClaimedHead
  <2>2. e \notin marked'[g] /\ \A h \in Gateways : marked'[h] \subseteq marked[h]
    <3> HIDE DEF e
    <3>1. CASE ClaimJournaled(g, e) BY <1>0, <3>1 DEF ClaimJournaled, Pending
    <3>2. CASE ClaimMarked(g, e) BY <1>0, <3>2 DEF ClaimMarked, Unmark
    <3>3. CASE ClaimPassed(g, e) BY <3>3 DEF ClaimPassed, MemoryInv, MarkInv
    <3> QED BY <1>2, <3>1, <3>2, <3>3 DEF Claim, e
  <2> HIDE DEF e
  <2> QED BY <1>0, <2>1, <2>2 DEF MarkersQueued
<1>3. ASSUME NEW g \in Gateways, Start(g) PROVE MarkersQueued'
  <2>1. marked' = marked BY <1>3 DEF Start
  <2>2. CASE queue' = queue BY <2>1, <2>2 DEF MarkersQueued
  <2>3. CASE queue' = [queue EXCEPT ![g] = @ \o SetToSeq(Requeued(g))]
    <3> DEFINE q == SetToSeq(Requeued(g))
    <3>1. q \in Seq(Events) BY RequeuedSet
    <3> HIDE DEF q
    <3>2. queue' = [queue EXCEPT ![g] = queue[g] \o q] BY <2>3 DEF q
    <3>3. \A h \in Gateways : ToSet(queue[h]) \subseteq ToSet(queue'[h])
      BY <1>0, <3>1, <3>2, ConcatSet
    <3> QED BY <1>0, <2>1, <3>3 DEF MarkersQueued
  <2> QED BY <1>3, <2>2, <2>3 DEF Start, Recover
<1>4. ASSUME NEW g \in Gateways, Stop(g) PROVE MarkersQueued'
  <2>1. queue' = queue /\ marked' = marked BY <1>0, <1>4 DEF Stop, May
  <2> QED BY <2>1 DEF MarkersQueued
<1>5. ASSUME NEW g \in Gateways, Crash(g) PROVE MarkersQueued'
  BY <1>0, <1>5 DEF Crash, MarkersQueued
<1>6. CASE \/ \E g \in Gateways : \/ Answer(g) \/ AcceptTurn(g) \/ Fail(g) \/ Complete(g)
                                  \/ Abandon(g) \/ Renew(g)
           \/ Lapse \/ UNCHANGED vars
  <2>1. queue' = queue /\ marked' = marked
    BY <1>6 DEF Answer, AcceptTurn, Fail, Complete, Abandon, Renew, Lapse, vars
  <2> QED BY <2>1 DEF MarkersQueued
<1> QED BY <1>1, <1>2, <1>3, <1>4, <1>5, <1>6 DEF Next, LoopStep, ChannelStep

LEMMA MarkersInit == Init => MarkersQueued
BY DEF Init, MarkersQueued

LEMMA MarkersInvariance ==
  ASSUME "rebuild" \notin Faults PROVE Spec => [](TypeOK /\ MemoryInv /\ MarkersQueued)
<1>1. TypeOK /\ MemoryInv /\ MarkersQueued /\ [Next]_vars => MarkersQueued' BY MarkersNext
<1> QED BY <1>1, MarkersInit, MemoryInvariant, PTL DEF Spec

\* As long as restarts keep the adapter with its queue, every event that was
\* accepted in memory only is still in the queue, where claim_inbound resolves its
\* marker (accept_inbound refuses its redeliveries until then).  A rebuilt adapter
\* has an empty queue, and the markers of what was in the old one stay.
THEOREM MarkersStayQueued == ASSUME "rebuild" \notin Faults PROVE Spec => []MarkersQueued
BY MarkersInvariance, PTL

\* An adapter whose enqueue() is durable_enqueue, kept over restarts: a started
\* channel has every open row of the journal as accepted and in its queue, or has
\* passed the event through itself (_safe_start with recover_inbound).
THEOREM RestartsAdopt ==
  ASSUME Adapter = "enqueue", "rebuild" \notin Faults PROVE Spec => RestartAdopts
<1> DEFINE Adopts == \A g \in Gateways : chan[g] = "idle" /\ chan'[g] = "running" =>
                       \A e \in Events : row'[e] \in {"accepted", "processing"} =>
                         \/ row'[e] = "accepted" /\ e \in ToSet(queue'[g])
                         \/ e \in ToSet(passed[g])
<1>1. TypeOK /\ MemoryInv /\ MarkersQueued /\ [Next]_vars => [Adopts]_vars
  <2> SUFFICES ASSUME TypeOK, MarkersQueued, Next,
                      NEW g \in Gateways, chan[g] = "idle", chan'[g] = "running",
                      NEW e \in Events, row'[e] \in {"accepted", "processing"}
               PROVE  \/ row'[e] = "accepted" /\ e \in ToSet(queue'[g])
                      \/ e \in ToSet(passed[g])
    OBVIOUS
  <2>0. chan \in [Gateways -> {"idle", "running", "unguarded", "fenced"}] BY DEF TypeOK
  <2>1. Start(g)
    <3>1. ASSUME NEW h \in Gateways, LoopStep(h) PROVE chan' = chan
      BY <3>1 DEF LoopStep, Claim, Answer, AcceptTurn, Fail, Complete, Abandon
    <3>2. ASSUME NEW h \in Gateways, Stop(h) \/ Renew(h) \/ Crash(h) PROVE FALSE
      BY <2>0, <3>2 DEF Stop, Renew, Crash
    <3>3. ASSUME NEW h \in Gateways, Start(h) PROVE h = g
      <4>1. \E s \in {"idle", "running"} : chan' = [chan EXCEPT ![h] = s] BY <3>3 DEF Start
      <4> QED BY <2>0, <4>1
    <3>4. ASSUME Lapse \/ \E h \in Gateways, d \in Events : Deliver(h, d) PROVE chan' = chan
      BY <3>4 DEF Lapse, Deliver
    <3> QED BY <3>1, <3>2, <3>3, <3>4 DEF Next, ChannelStep
  <2> DEFINE q == SetToSeq(Requeued(g))
  <2>2. /\ row' = [d \in Events |-> IF d \in Recoverable THEN "accepted" ELSE row[d]]
        /\ queue' = [queue EXCEPT ![g] = queue[g] \o q]
    BY <2>1 DEF Start, Recover
  <2>3. q \in Seq(Events) /\ ToSet(q) = Requeued(g) BY RequeuedSet
  <2> HIDE DEF q
  <2>4. queue \in [Gateways -> Seq(Events)] BY DEF TypeOK
  <2>5. ToSet(queue'[g]) = ToSet(queue[g]) \cup Requeued(g) BY <2>2, <2>3, <2>4, ConcatSet
  <2>6. e \in Recoverable /\ row'[e] = "accepted" BY <2>2 DEF Recoverable, Unfinished
  <2>7. CASE Pending(g, e) BY <2>5, <2>6, <2>7 DEF Pending, MarkersQueued
  <2>8. CASE ~Pending(g, e)
    <3>1. e \in Requeued(g) BY <2>6, <2>8 DEF Requeued
    <3> QED BY <2>5, <2>6, <3>1
  <2> QED BY <2>7, <2>8
<1> QED BY <1>1, MarkersInvariance, PTL DEF Spec, RestartAdopts
============================================================================
