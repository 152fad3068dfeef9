----------------------------- MODULE MCExecutor -----------------------------
(* Small instances of Executor: one job with four triggers, and two jobs of  *)
(* which one has three.                                                      *)
EXTENDS Executor

CONSTANTS j1, j2, a, b, c, d

MCOneJobOf     == [l \in {a, b, c, d} |-> j1]
MCUnevenJobsOf == [l \in {a, b, c, d} |-> IF l = d THEN j2 ELSE j1]
=============================================================================
