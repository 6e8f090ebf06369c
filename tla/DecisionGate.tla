---------------------------- MODULE DecisionGate ----------------------------
(***************************************************************************)
(* What approvals promise to the code that waits for them: an approval is  *)
(* opened once, decided once, and its permission is used at most once.     *)
(***************************************************************************)
CONSTANT Approvals

VARIABLES
  decision, \* [Approvals -> {"none", "open", "approved", "denied"}]
  used      \* [Approvals -> {0, 1}]: times the permission was used

gate == <<decision, used>>

Init ==
  /\ decision = [a \in Approvals |-> "none"]
  /\ used = [a \in Approvals |-> 0]

Open(a) ==
  /\ decision[a] = "none"
  /\ decision' = [decision EXCEPT ![a] = "open"]
  /\ UNCHANGED used

\* One step may decide several: a denial, a session or a restart takes all that
\* belong together.
Decide ==
  /\ decision' \in [Approvals -> {"none", "open", "approved", "denied"}]
  /\ \A a \in Approvals :
       decision'[a] # decision[a] =>
         decision[a] = "open" /\ decision'[a] \in {"approved", "denied"}
  /\ UNCHANGED used

Use(a) ==
  /\ decision[a] = "approved" /\ used[a] = 0
  /\ used' = [used EXCEPT ![a] = 1]
  /\ UNCHANGED decision

Next == Decide \/ \E a \in Approvals : Open(a) \/ Use(a)

Spec == Init /\ [][Next]_gate
=============================================================================
