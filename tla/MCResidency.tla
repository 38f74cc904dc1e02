---------------------------- MODULE MCResidency ----------------------------
(* Small instances of Residency for TLC: one version that fits, one whose  *)
(* load is oversized and stays so, one whose load is oversized and whose   *)
(* body is small, one whose storage alone overruns its peak.               *)
EXTENDS Residency, TLC

CONSTANTS t1, t2, t3, fit, big, lean, grow

Symmetry == Permutations(Thread)

MCRaw == [k \in Key |-> CASE k \in {fit, lean} -> 1 [] k = big -> 3 [] OTHER -> 5]
MCTree == [k \in Key |-> IF k = big THEN 6 ELSE 2]
MCPeak == [k \in Key |-> CASE k = fit -> 5 [] k \in {big, lean} -> 12 [] OTHER -> 4]
=============================================================================
