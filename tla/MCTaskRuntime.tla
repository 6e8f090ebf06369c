--------------------------- MODULE MCTaskRuntime ---------------------------
(* Instances of TaskRuntime for TLC. *)
EXTENDS TaskRuntime, TLC

CONSTANTS t1, t2, t3, t4, s1, s2, s3, a1

OneSession == [t \in Tasks |-> s1]
TwoSessions == [t \in Tasks |-> IF t = t3 THEN s2 ELSE s1]
OneAgent == [s \in Sessions |-> a1]

AllDefault == [t \in Tasks |-> "default"]
TwoSubagents == [t \in Tasks |-> IF t \in {t2, t3} THEN "subagent" ELSE "default"]

\* Tasks of one session and one kind are interchangeable.
TaskSymmetry == Permutations(Tasks)
=============================================================================
