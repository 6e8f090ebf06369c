-------------------------- MODULE MCCronScheduler --------------------------
(* CronScheduler for TLC.  Runs are interchangeable; the jobs, of which    *)
(* some may lack a handler, are kept apart.                                *)
EXTENDS CronScheduler, TLC

RunSymmetry == Permutations(Runs)
============================================================================
