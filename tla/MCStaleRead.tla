---------------------------- MODULE MCStaleRead ----------------------------
(* Two overlapping calls, a tolerance of one tick and a clock of three, so   *)
(* that a change can fall inside the tolerance, after it, and again after   *)
(* the next baseline.                                                       *)
EXTENDS StaleRead, TLC

CONSTANTS c1, c2

MCCalls == {c1, c2}

Symmetric == Permutations(MCCalls)
=============================================================================
